---- MODULE Spec2Model ----
(***************************************************************************)
(* A model of talk-to-claude: the voice-command parser, the split-pane     *)
(* position detector, the session manager (registry) and the daemon's      *)
(* transcript dispatch.  Text is a sequence of one-character strings, so   *)
(* that trimming, lower-casing and substring search are computed.          *)
(***************************************************************************)
EXTENDS Integers, Sequences, FiniteSets, TLC

VARIABLES
    live,               \* backend: ids of the panes that exist in iTerm2
    focus,              \* backend: current session of the current tab, or NoSession
    connected,          \* ITermController._connected
    sessions,           \* SessionManager._sessions: id -> ManagedSession
    active_session_id,  \* SessionManager._active_session_id
    text_buffer,        \* TalkToClaudeDaemon._text_buffer
    overlay,            \* whether TalkToClaudeDaemon._overlay is set (config)
    status,             \* the last update the overlay received
    daemon,             \* where start() is: "init", "listening", "leaving",
                        \* "stop_transcriber", "stop_iterm", "stopped"; or the
                        \* component under study when there is no daemon
    tasks,              \* the asyncio tasks and direct calls, in creation order
    sent,               \* history: the calls of ITermController.send_text
    submitCalls,        \* history: the calls of SessionManager.submit_to_active
    bufIds,             \* history: the events whose text is in text_buffer
    dropped,            \* history: the events whose text clear-restart discarded
    lastEvent,          \* history: the last transcript event handled
    nEvents,            \* history: number of transcript events handled
    nChurn,             \* number of backend changes made by the user
    nFaults,            \* number of backend calls that failed or timed out
    nTicks,             \* number of wake-ups of the periodic refresh task
    nCalls,             \* number of direct calls of the session manager
    lastFault,          \* history: "timeout" or "error", the last failure counted
    parse_text,         \* the text handed to CommandParser.parse
    parse_result,       \* what CommandParser.parse returned for it
    layout_root,        \* the tab.root handed to compute_positions
    layout_positions,   \* the list compute_positions returned, or a given list
    find_target,        \* the target handed to find_session_by_position
    find_result,        \* what find_session_by_position returned
    lastResult,         \* history: what the last completed registry call returned
    shutdown_event,     \* whether TalkToClaudeDaemon._shutdown_event is set
    released            \* history: the resources stop() has dealt with, in order

vars == <<live, focus, connected, sessions, active_session_id, text_buffer,
          overlay, status, daemon, tasks, sent, submitCalls, bufIds, dropped,
          lastEvent, nEvents, nChurn, nFaults, nTicks, nCalls, lastResult,
          lastFault, parse_text, parse_result,
                   layout_root, layout_positions, find_target, find_result,
                   shutdown_event, released>>

(***************************************************************************)
(* Bounds of the model.                                                    *)
(***************************************************************************)
MaxEvents == 3
MaxDisturbances == 1
MaxTicks == 1
MaxCalls == 4

(***************************************************************************)
(* Strings as sequences of characters.                                     *)
(***************************************************************************)
Min(S) == CHOOSE x \in S : \A y \in S : x <= y
Max(S) == CHOOSE x \in S : \A y \in S : x >= y

\* Python's whitespace: str.strip(), str.split() and the regex class \s.
WS == {" ", "\t", "\n", "\r"}

UpperAlpha == <<"A", "B", "C", "D", "E", "F", "G", "H", "I", "J", "K", "L", "M",
                "N", "O", "P", "Q", "R", "S", "T", "U", "V", "W", "X", "Y", "Z">>
LowerAlpha == <<"a", "b", "c", "d", "e", "f", "g", "h", "i", "j", "k", "l", "m",
                "n", "o", "p", "q", "r", "s", "t", "u", "v", "w", "x", "y", "z">>

LowerChar(c) ==
    IF \E i \in DOMAIN UpperAlpha : UpperAlpha[i] = c
    THEN LowerAlpha[CHOOSE i \in DOMAIN UpperAlpha : UpperAlpha[i] = c]
    ELSE c

\* str.lower()
Lower(s) == [i \in 1..Len(s) |-> LowerChar(s[i])]

\* str.strip()
Strip(s) ==
    LET keep == {i \in 1..Len(s) : s[i] \notin WS}
    IN  IF keep = {} THEN <<>> ELSE SubSeq(s, Min(keep), Max(keep))

\* needle occurs in hay at the 1-based index i
MatchAt(hay, needle, i) ==
    /\ i >= 1
    /\ i + Len(needle) - 1 <= Len(hay)
    /\ SubSeq(hay, i, i + Len(needle) - 1) = needle

\* str.rfind(): the highest 0-based index of needle in hay, or -1
Find_Last(hay, needle) ==
    LET hits == {i \in 1..(Len(hay) + 1) : MatchAt(hay, needle, i)}
    IN  IF hits = {} THEN -1 ELSE Max(hits) - 1

\* str.find(): the lowest 0-based index of needle in hay, or -1
Find(hay, needle) ==
    LET hits == {i \in 1..(Len(hay) + 1) : MatchAt(hay, needle, i)}
    IN  IF hits = {} THEN -1 ELSE Min(hits) - 1

\* needle in hay
Contains(hay, needle) == Find(hay, needle) # -1

\* str.startswith()
StartsWith(s, prefix) == MatchAt(s, prefix, 1)

\* str.split() without arguments: the maximal runs of non-whitespace
RECURSIVE SplitFrom(_, _)
SplitFrom(s, i) ==
    IF i > Len(s) THEN <<>>
    ELSE IF s[i] \in WS THEN SplitFrom(s, i + 1)
    ELSE LET stops == {j \in i..Len(s) : s[j] \in WS}
             e == IF stops = {} THEN Len(s) + 1 ELSE Min(stops)
         IN  <<SubSeq(s, i, e - 1)>> \o SplitFrom(s, e)

Split(s) == SplitFrom(s, 1)

(***************************************************************************)
(* command_parser.py                                                       *)
(***************************************************************************)
\* Optional[str]: None is the empty tuple, a text x is <<x>>.
NoText == <<>>
SomeText(x) == <<x>>

\* Optional[WindowPosition]
NoPosition == [horizontal |-> "none", vertical |-> "none"]

WindowPosition(h, v) == [horizontal |-> h, vertical |-> v]

\* WindowPosition.__str__
PositionStr(p) == <<p.vertical, "-", p.horizontal>>

ParseResult(type, position, text) ==
    [type |-> type, position |-> position, text |-> text]

HORIZONTAL_WORDS ==
    [w \in {<<"l","e","f","t">>, <<"r","i","g","h","t">>,
            <<"c","e","n","t","e","r">>, <<"m","i","d","d","l","e">>} |->
        CASE w = <<"l","e","f","t">> -> "left"
          [] w = <<"r","i","g","h","t">> -> "right"
          [] OTHER -> "center"]

VERTICAL_WORDS ==
    [w \in {<<"u","p","p","e","r">>, <<"t","o","p">>, <<"l","o","w","e","r">>,
            <<"b","o","t","t","o","m">>, <<"m","i","d","d","l","e">>,
            <<"c","e","n","t","e","r">>} |->
        CASE w \in {<<"u","p","p","e","r">>, <<"t","o","p">>} -> "upper"
          [] w \in {<<"l","o","w","e","r">>, <<"b","o","t","t","o","m">>} -> "lower"
          [] OTHER -> "middle"]

\* The alternatives of WINDOW_PATTERNS[0], in the order the regex tries them.
PatternVerbs == << <<"a","c","t","i","v","a","t","e">>, <<"g","o"," ","t","o">>,
                   <<"s","w","i","t","c","h"," ","t","o">> >>
PatternArticle == <<"t","h","e">>
PatternNouns == << <<"w","i","n","d","o","w">>, <<"p","a","n","e">> >>

\* CommandParser.__init__ with the daemon's defaults
end_voice_phrases == << <<"e","n","d"," ","v","o","i","c","e">> >>
clear_restart_phrases ==
    << <<"c","l","e","a","r"," ","a","n","d"," ","r","e","s","t","a","r","t">>,
       <<"s","t","a","r","t"," ","o","v","e","r">>,
       <<"n","e","v","e","r"," ","m","i","n","d">> >>

\* CommandParser._parse_position
RECURSIVE PositionLoop(_, _, _, _)
PositionLoop(words, i, horizontal, vertical) ==
    IF i > Len(words) THEN <<horizontal, vertical>>
    ELSE IF words[i] \in DOMAIN HORIZONTAL_WORDS
         THEN PositionLoop(words, i + 1, HORIZONTAL_WORDS[words[i]], vertical)
    ELSE IF words[i] \in DOMAIN VERTICAL_WORDS
         THEN PositionLoop(words, i + 1, horizontal, VERTICAL_WORDS[words[i]])
    ELSE PositionLoop(words, i + 1, horizontal, vertical)

\* _parse_position without its last check: the defaults are returned even
\* when no word was recognised
parse_position_DefaultsAlways(position_text) ==
    LET words == Split(position_text)
        hv == PositionLoop(words, 1, "none", "none")
        horizontal == IF hv[1] = "none" THEN "center" ELSE hv[1]
        vertical == IF hv[2] = "none" THEN "middle" ELSE hv[2]
    IN  WindowPosition(horizontal, vertical)

parse_position(position_text) ==
    LET words == Split(position_text)
        hv == PositionLoop(words, 1, "none", "none")
        horizontal == IF hv[1] = "none" THEN "center" ELSE hv[1]
        vertical == IF hv[2] = "none" THEN "middle" ELSE hv[2]
    IN  IF \E i \in 1..Len(words) :
              words[i] \in DOMAIN HORIZONTAL_WORDS \/ words[i] \in DOMAIN VERTICAL_WORDS
        THEN WindowPosition(horizontal, vertical)
        ELSE NoPosition

\* The regex $ : the end of the text, or just before a final newline.
AtEnd(s, i) == i = Len(s) + 1 \/ (i = Len(s) /\ s[i] = "\n")

\* \s*(?:window|pane)?$ matches the text from index j on.
TailMatches(s, j) ==
    \E w \in 0..(Len(s) + 1 - j) :
        /\ \A k \in j..(j + w - 1) : s[k] \in WS
        /\ \/ AtEnd(s, j + w)
           \/ \E n \in DOMAIN PatternNouns :
                /\ MatchAt(Lower(s), PatternNouns[n], j + w)
                /\ AtEnd(s, j + w + Len(PatternNouns[n]))

\* (.+?) starting at g, followed by the tail: the lengths the group can take.
GroupLengths(s, g) ==
    {n \in 1..(Len(s) + 1 - g) :
        /\ \A k \in g..(g + n - 1) : s[k] # "\n"
        /\ TailMatches(s, g + n)}

\* The number of whitespace characters of s from index q on.
SpaceRun(s, q) ==
    LET stops == {j \in q..Len(s) : s[j] \notin WS}
    IN  (IF stops = {} THEN Len(s) + 1 ELSE Min(stops)) - q

\* The starts of group 1 the regex tries after \s+ has taken the text up to
\* r: first with the article (its \s+ greedy), then without it.
RECURSIVE ArticleStarts(_, _)
ArticleStarts(r, m) ==
    IF m < 1 THEN <<>> ELSE <<r + Len(PatternArticle) + m>> \o ArticleStarts(r, m - 1)

StartsAfterSpace(s, r) ==
    (IF MatchAt(Lower(s), PatternArticle, r)
     THEN ArticleStarts(r, SpaceRun(s, r + Len(PatternArticle)))
     ELSE <<>>) \o <<r>>

\* The starts of group 1 after a verb that ends before q, \s+ greedy.
RECURSIVE StartsAfterVerb(_, _, _)
StartsAfterVerb(s, q, k) ==
    IF k < 1 THEN <<>> ELSE StartsAfterSpace(s, q + k) \o StartsAfterVerb(s, q, k - 1)

\* All starts of group 1 the regex tries with the match beginning at p.
RECURSIVE StartsAt(_, _, _)
StartsAt(s, p, v) ==
    IF v > Len(PatternVerbs) THEN <<>>
    ELSE (IF MatchAt(Lower(s), PatternVerbs[v], p)
          THEN StartsAfterVerb(s, p + Len(PatternVerbs[v]),
                               SpaceRun(s, p + Len(PatternVerbs[v])))
          ELSE <<>>) \o StartsAt(s, p, v + 1)

\* pattern.search(text).group(1), as <<group>>, or <<>> when nothing matches
PatternSearch(s) ==
    LET good(p) == {i \in DOMAIN StartsAt(s, p, 1) :
                        GroupLengths(s, StartsAt(s, p, 1)[i]) # {}}
        ps == {p \in 1..Len(s) : good(p) # {}}
    IN  IF ps = {} THEN <<>>
        ELSE LET p == Min(ps)
                 g == StartsAt(s, p, 1)[Min(good(p))]
             IN  <<SubSeq(s, g, g + Min(GroupLengths(s, g)) - 1)>>

\* _parse_window_command without .lower() on the captured group
parse_window_command_CaseSensitive(text) ==
    LET m == PatternSearch(text)
    IN  IF m # <<>> THEN parse_position(m[1]) ELSE NoPosition

\* CommandParser._parse_window_command
parse_window_command(text) ==
    LET m == PatternSearch(text)
    IN  IF m # <<>> THEN parse_position(Lower(m[1])) ELSE NoPosition

\* The first phrase of the list that occurs in the text (0 when none does).
FirstPhrase(phrases, text_lower) ==
    LET hits == {i \in DOMAIN phrases : Contains(text_lower, phrases[i])}
    IN  IF hits = {} THEN 0 ELSE Min(hits)

\* parse with the end phrases looked for before the clear/restart phrases
parse_EndPhraseFirst(raw) ==
    LET text == Strip(raw)
        text_lower == Lower(text)
    IN  IF FirstPhrase(end_voice_phrases, text_lower) # 0
        THEN LET phrase == end_voice_phrases[FirstPhrase(end_voice_phrases, text_lower)]
                 idx == Find(text_lower, phrase)
                 prefix_text == Strip(SubSeq(text, 1, idx))
             IN  ParseResult("END_VOICE", NoPosition,
                             IF prefix_text # <<>> THEN SomeText(prefix_text) ELSE NoText)
        ELSE IF FirstPhrase(clear_restart_phrases, text_lower) # 0
        THEN ParseResult("CLEAR_RESTART", NoPosition, NoText)
        ELSE LET position == parse_window_command(text)
             IN  IF position # NoPosition
                 THEN ParseResult("WINDOW_COMMAND", position, NoText)
                 ELSE ParseResult("TEXT", NoPosition, SomeText(text))

\* CommandParser.parse
parse(raw) ==
    LET text == Strip(raw)
        text_lower == Lower(text)
    IN  IF FirstPhrase(clear_restart_phrases, text_lower) # 0
        THEN ParseResult("CLEAR_RESTART", NoPosition, NoText)
        ELSE IF FirstPhrase(end_voice_phrases, text_lower) # 0
        THEN LET phrase == end_voice_phrases[FirstPhrase(end_voice_phrases, text_lower)]
                 idx == Find(text_lower, phrase)
                 prefix_text == Strip(SubSeq(text, 1, idx))
             IN  ParseResult("END_VOICE", NoPosition,
                             IF prefix_text # <<>> THEN SomeText(prefix_text) ELSE NoText)
        ELSE LET position == parse_window_command(text)
             IN  IF position # NoPosition
                 THEN ParseResult("WINDOW_COMMAND", position, NoText)
                 ELSE ParseResult("TEXT", NoPosition, SomeText(text))

(***************************************************************************)
(* position_detector.py                                                    *)
(***************************************************************************)
NoSession == "none"

\* iterm2.Session and iterm2.Splitter, as tab.root holds them
SessionNode(id) == [kind |-> "session", id |-> id]
SplitterNode(vertical, children) ==
    [kind |-> "splitter", vertical |-> vertical, children |-> children]

SessionPosition(session, horizontal, vertical, row, col) ==
    [session |-> session, horizontal |-> horizontal, vertical |-> vertical,
     row |-> row, col |-> col]

\* Optional[SessionPosition]
NoSessionPosition == SessionPosition(NoSession, "none", "none", -1, -1)

\* [None] * n
RECURSIVE Nones(_)
Nones(n) == IF n <= 0 THEN <<>> ELSE <<NoSession>> \o Nones(n - 1)

\* _merge_horizontal that fills the missing rows of a child with its last
\* row, so that a pane spans the rows next to it
RECURSIVE MergedRow_Spanning(_, _, _)
MergedRow_Spanning(grids, row_idx, g) ==
    IF g > Len(grids) THEN <<>>
    ELSE (IF row_idx <= Len(grids[g])
          THEN grids[g][row_idx]
          ELSE IF grids[g] # <<>> THEN grids[g][Len(grids[g])]
          ELSE Nones(1))
         \o MergedRow_Spanning(grids, row_idx, g + 1)

\* PositionDetector._merge_horizontal: one row of the result
RECURSIVE MergedRow(_, _, _)
MergedRow(grids, row_idx, g) ==
    IF g > Len(grids) THEN <<>>
    ELSE (IF row_idx <= Len(grids[g])
          THEN grids[g][row_idx]
          ELSE Nones(IF grids[g] # <<>> THEN Len(grids[g][1]) ELSE 1))
         \o MergedRow(grids, row_idx, g + 1)

\* _merge_horizontal that stops at the shortest child
merge_horizontal_ShortestChild(grids) ==
    IF grids = <<>> THEN <<>>
    ELSE LET min_rows == Min({Len(grids[g]) : g \in DOMAIN grids})
         IN  [row_idx \in 1..min_rows |-> MergedRow(grids, row_idx, 1)]

\* PositionDetector._merge_horizontal
merge_horizontal(grids) ==
    IF grids = <<>> THEN <<>>
    ELSE LET max_rows == Max({Len(grids[g]) : g \in DOMAIN grids})
         IN  [row_idx \in 1..max_rows |-> MergedRow(grids, row_idx, 1)]

\* PositionDetector._merge_vertical: the rows of the grids from g on
RECURSIVE StackedRows(_, _, _)
StackedRows(grids, max_cols, g) ==
    IF g > Len(grids) THEN <<>>
    ELSE [r \in 1..Len(grids[g]) |->
             grids[g][r] \o Nones(max_cols - Len(grids[g][r]))]
         \o StackedRows(grids, max_cols, g + 1)

\* _merge_vertical that stacks the rows as they are, without padding
merge_vertical_Ragged(grids) ==
    IF grids = <<>> THEN <<>> ELSE StackedRows(grids, 0, 1)

\* PositionDetector._merge_vertical
merge_vertical(grids) ==
    IF grids = <<>> THEN <<>>
    ELSE LET max_cols == Max({IF grids[g] # <<>> THEN Len(grids[g][1]) ELSE 1 :
                                g \in DOMAIN grids})
         IN  StackedRows(grids, max_cols, 1)

\* _build_grid with the two axes taken for each other
RECURSIVE build_grid_AxesSwapped(_)
build_grid_AxesSwapped(splitter) ==
    LET children == splitter.children
        grids == [c \in DOMAIN children |->
                    IF children[c].kind = "session"
                    THEN << <<children[c].id>> >>
                    ELSE build_grid_AxesSwapped(children[c])]
    IN  IF splitter.vertical THEN merge_vertical(grids) ELSE merge_horizontal(grids)

\* PositionDetector._build_grid
RECURSIVE build_grid(_)
build_grid(splitter) ==
    LET children == splitter.children
        grids == [c \in DOMAIN children |->
                    IF children[c].kind = "session"
                    THEN << <<children[c].id>> >>
                    ELSE build_grid(children[c])]
    IN  IF splitter.vertical THEN merge_horizontal(grids) ELSE merge_vertical(grids)

\* _grid_to_positions without the rule of the single column and single row
RECURSIVE PositionsFrom_EdgesOnly(_, _, _, _)
PositionsFrom_EdgesOnly(grid, row_idx, col_idx, seen_sessions) ==
    LET num_rows == Len(grid)
        num_cols == Len(grid[1])
    IN  IF row_idx >= num_rows THEN <<>>
        ELSE IF col_idx >= Len(grid[row_idx + 1])
        THEN PositionsFrom_EdgesOnly(grid, row_idx + 1, 0, seen_sessions)
        ELSE LET session == grid[row_idx + 1][col_idx + 1]
                 h_pos == IF col_idx = 0 THEN "left"
                          ELSE IF col_idx = num_cols - 1 THEN "right"
                          ELSE "center"
                 v_pos == IF row_idx = 0 THEN "upper"
                          ELSE IF row_idx = num_rows - 1 THEN "lower"
                          ELSE "middle"
             IN  IF session = NoSession \/ session \in seen_sessions
                 THEN PositionsFrom_EdgesOnly(grid, row_idx, col_idx + 1, seen_sessions)
                 ELSE <<SessionPosition(session, h_pos, v_pos, row_idx, col_idx)>>
                      \o PositionsFrom_EdgesOnly(grid, row_idx, col_idx + 1,
                                                 seen_sessions \cup {session})

\* PositionDetector._grid_to_positions: the cells from (row_idx, col_idx) on,
\* in row-major order (indices are 0-based as in the code)
RECURSIVE PositionsFrom(_, _, _, _)
PositionsFrom(grid, row_idx, col_idx, seen_sessions) ==
    LET num_rows == Len(grid)
        num_cols == Len(grid[1])
    IN  IF row_idx >= num_rows THEN <<>>
        ELSE IF col_idx >= Len(grid[row_idx + 1])
        THEN PositionsFrom(grid, row_idx + 1, 0, seen_sessions)
        ELSE LET session == grid[row_idx + 1][col_idx + 1]
                 h_pos == IF num_cols = 1 THEN "center"
                          ELSE IF col_idx = 0 THEN "left"
                          ELSE IF col_idx = num_cols - 1 THEN "right"
                          ELSE "center"
                 v_pos == IF num_rows = 1 THEN "middle"
                          ELSE IF row_idx = 0 THEN "upper"
                          ELSE IF row_idx = num_rows - 1 THEN "lower"
                          ELSE "middle"
             IN  IF session = NoSession \/ session \in seen_sessions
                 THEN PositionsFrom(grid, row_idx, col_idx + 1, seen_sessions)
                 ELSE <<SessionPosition(session, h_pos, v_pos, row_idx, col_idx)>>
                      \o PositionsFrom(grid, row_idx, col_idx + 1,
                                       seen_sessions \cup {session})

\* PositionDetector._grid_to_positions
grid_to_positions(grid) ==
    IF grid = <<>> \/ grid[1] = <<>> THEN <<>> ELSE PositionsFrom(grid, 0, 0, {})

\* compute_positions that classifies a lone session as a corner cell
compute_positions_LoneIsCorner(root) ==
    IF root.kind = "session"
    THEN <<SessionPosition(root.id, "left", "upper", 0, 0)>>
    ELSE grid_to_positions(build_grid(root))

\* PositionDetector.compute_positions
compute_positions(root) ==
    IF root.kind = "session"
    THEN <<SessionPosition(root.id, "center", "middle", 0, 0)>>
    ELSE grid_to_positions(build_grid(root))

\* The session of the first entry of positions that satisfies ok, or none.
FirstSession(positions, ok(_)) ==
    LET hits == {i \in DOMAIN positions : ok(positions[i])}
    IN  IF hits = {} THEN NoSession ELSE positions[Min(hits)].session

\* find_session_by_position without its partial matches
find_session_by_position_ExactOnly(positions, target) ==
    LET exact(pos) == pos.horizontal = target.horizontal /\ pos.vertical = target.vertical
    IN  FirstSession(positions, exact)

\* find_session_by_position whose partial matches are tried for every target
find_session_by_position_AnyTarget(positions, target) ==
    LET exact(pos) == pos.horizontal = target.horizontal /\ pos.vertical = target.vertical
        same_h(pos) == pos.horizontal = target.horizontal
        same_v(pos) == pos.vertical = target.vertical
    IN  IF FirstSession(positions, exact) # NoSession
        THEN FirstSession(positions, exact)
        ELSE IF FirstSession(positions, same_h) # NoSession
        THEN FirstSession(positions, same_h)
        ELSE FirstSession(positions, same_v)

\* PositionDetector.find_session_by_position
find_session_by_position(positions, target) ==
    LET exact(pos) == pos.horizontal = target.horizontal /\ pos.vertical = target.vertical
        same_h(pos) == pos.horizontal = target.horizontal
        same_v(pos) == pos.vertical = target.vertical
    IN  IF FirstSession(positions, exact) # NoSession
        THEN FirstSession(positions, exact)
        ELSE IF target.vertical = "middle" /\ FirstSession(positions, same_h) # NoSession
        THEN FirstSession(positions, same_h)
        ELSE IF target.horizontal = "center"
        THEN FirstSession(positions, same_v)
        ELSE NoSession

\* No tree has been handed to compute_positions, no list computed, nothing
\* looked for
NoRoot == SessionNode(NoSession)
NotComputed == <<NoSessionPosition>>
Pending == "pending"
NoLayout ==
    /\ layout_root = NoRoot
    /\ layout_positions = NotComputed
    /\ find_target = NoPosition
    /\ find_result = Pending

\* TalkToClaudeDaemon.__init__: the shutdown event is clear; nothing has been
\* released
NotStopping ==
    /\ shutdown_event = FALSE
    /\ released = <<>>

(***************************************************************************)
(* The terminal backend (iTerm2), as the controller reads it.              *)
(***************************************************************************)
Sessions == {"s1", "s2", "s3"}

\* The panes that ITermController._is_claude_session classifies as Claude.
Targets == {"s1", "s2"}

\* The tab that holds a pane, and the panes' order from left to right.
TabOf(s) == IF s = "s2" THEN "t2" ELSE "t1"
PaneOrder == <<"s1", "s3", "s2">>
NoTab == "none"

Ordered(S) == SelectSeq(PaneOrder, LAMBDA s : s \in S)

\* tab.root: the panes of a tab side by side
TabRoot(tab) ==
    LET panes == Ordered({s \in live : TabOf(s) = tab})
    IN  IF Len(panes) = 1 THEN SessionNode(panes[1])
        ELSE SplitterNode(TRUE, [k \in DOMAIN panes |-> SessionNode(panes[k])])

\* ITermController.get_current_tab
get_current_tab == IF connected /\ focus # NoSession THEN TabOf(focus) ELSE NoTab

\* ITermController.get_session_positions
get_session_positions(tab) == compute_positions(TabRoot(tab))

\* a submit that ends the text with a line feed
WithNewline_LineFeed(text) == text \o <<"\n">>

\* ITermController.send_text_with_newline: the text it hands to send_text
WithNewline(text) == text \o <<"\r">>

(***************************************************************************)
(* session_manager.py                                                      *)
(***************************************************************************)
ManagedSession(tab) == [tab |-> tab, position |-> NoSessionPosition, is_active |-> FALSE]

\* SessionManager.get_session_count
get_session_count(map) == Cardinality(DOMAIN map)

\* SessionManager.get_session_for_position
get_session_for_position(position) ==
    LET tab == get_current_tab
    IN  IF tab = NoTab THEN NoSession
        ELSE find_session_by_position(get_session_positions(tab), position)

\* get_active_session with the cached id tried before the focused session
get_active_session_CacheFirst ==
    LET tab == IF connected /\ focus # NoSession THEN TabOf(focus) ELSE NoTab
        current == IF tab # NoTab THEN focus ELSE NoSession
    IN  IF active_session_id # NoSession /\ active_session_id \in DOMAIN sessions
        THEN [session |-> active_session_id, active |-> active_session_id]
        ELSE IF current # NoSession /\ current \in DOMAIN sessions
        THEN [session |-> current, active |-> current]
        ELSE IF Cardinality(DOMAIN sessions) = 1
        THEN [session |-> CHOOSE id \in DOMAIN sessions : TRUE,
              active |-> CHOOSE id \in DOMAIN sessions : TRUE]
        ELSE [session |-> NoSession, active |-> active_session_id]

\* get_active_session that takes the focused pane without looking it up in
\* the registry
get_active_session_AnyFocused ==
    LET tab == get_current_tab
        current == IF tab # NoTab THEN focus ELSE NoSession
    IN  IF current # NoSession
        THEN [session |-> current, active |-> current]
        ELSE IF active_session_id # NoSession /\ active_session_id \in DOMAIN sessions
        THEN [session |-> active_session_id, active |-> active_session_id]
        ELSE IF Cardinality(DOMAIN sessions) = 1
        THEN [session |-> CHOOSE id \in DOMAIN sessions : TRUE,
              active |-> CHOOSE id \in DOMAIN sessions : TRUE]
        ELSE [session |-> NoSession, active |-> active_session_id]

\* SessionManager.get_active_session: the session returned and the cache after
get_active_session ==
    LET tab == get_current_tab
        current == IF tab # NoTab THEN focus ELSE NoSession
    IN  IF current # NoSession /\ current \in DOMAIN sessions
        THEN [session |-> current, active |-> current]
        ELSE IF active_session_id # NoSession /\ active_session_id \in DOMAIN sessions
        THEN [session |-> active_session_id, active |-> active_session_id]
        ELSE IF Cardinality(DOMAIN sessions) = 1
        THEN [session |-> CHOOSE id \in DOMAIN sessions : TRUE,
              active |-> CHOOSE id \in DOMAIN sessions : TRUE]
        ELSE [session |-> NoSession, active |-> active_session_id]

\* SessionManager.set_active_session after activate_session has returned
set_active_flags(map, session) ==
    [sid \in DOMAIN map |-> [map[sid] EXCEPT !.is_active = (sid = session)]]

\* a clear sequence of Ctrl+U alone
ClearSequence_LineKillOnly == <<"\\x15">>

\* SessionManager.clear_current_line: the characters Escape, Ctrl+C, Ctrl+U
\* (each written as Python writes it)
ClearSequence == <<"\\x1b", "\\x03", "\\x15">>

\* one query of the layout for every registered session
PositionQueries_PerSession(map) ==
    [k \in DOMAIN Ordered(DOMAIN map) |-> map[Ordered(DOMAIN map)[k]].tab]

\* SessionManager._update_positions, lines 93-104: the tabs it hands to
\* get_session_positions, one call for each key of its dict `tabs`
RECURSIVE GroupByTab(_, _, _)
GroupByTab(map, ids, tabs) ==
    IF ids = <<>> THEN tabs
    ELSE LET tab_id == map[Head(ids)].tab
         IN  GroupByTab(map, Tail(ids),
                        IF \E k \in DOMAIN tabs : tabs[k] = tab_id THEN tabs
                        ELSE Append(tabs, tab_id))

PositionQueries(map) == GroupByTab(map, Ordered(DOMAIN map), <<>>)

\* SessionManager._update_positions
update_positions(map) ==
    [id \in DOMAIN map |->
        LET positions == get_session_positions(map[id].tab)
            mine == {k \in DOMAIN positions : positions[k].session = id}
        IN  IF mine = {} THEN map[id]
            ELSE [map[id] EXCEPT !.position = positions[Min(mine)]]]

\* refresh_sessions with an eviction that leaves the cache alone
RefreshFinish_KeepsCache(map, active, current_ids) ==
    [sessions |-> [id \in DOMAIN map \cap current_ids |-> map[id]],
     active |-> active]

\* SessionManager.refresh_sessions, lines 64-73: eviction, then the positions
RefreshFinish(map, active, current_ids) ==
    LET removed == DOMAIN map \ current_ids
        kept == [id \in DOMAIN map \ removed |-> map[id]]
    IN  [sessions |-> update_positions(kept),
         active |-> IF active \in removed THEN NoSession ELSE active]

\* SessionManager.refresh_sessions, lines 50-54: the loop skips the sessions
\* that are registered; what is left of todo when it reaches its next await
RECURSIVE RefreshSkip(_, _)
RefreshSkip(map, todo) ==
    IF todo = <<>> THEN <<>>
    ELSE IF Head(todo) \in DOMAIN map THEN RefreshSkip(map, Tail(todo))
    ELSE todo

\* SessionManager._find_session_tab
find_session_tab(session) == IF session \in live THEN TabOf(session) ELSE NoTab

(***************************************************************************)
(* The overlay (status sink): the last call it received.                   *)
(***************************************************************************)
Status(call, text, is_final) == [call |-> call, text |-> text, is_final |-> is_final]

NoStatus == Status("none", <<>>, FALSE)
\* overlay.update_text(text, is_final)
UpdateText(text, is_final) == Status("update_text", text, is_final)
\* overlay.clear() followed by overlay.set_listening(True)
SetListening == Status("set_listening", <<>>, FALSE)
Submitted == UpdateText(<<"Submitted!">>, TRUE)
NoActiveSession == UpdateText(<<"No active session">>, TRUE)
NoActiveSessions == UpdateText(<<"No active sessions">>, TRUE)
Activated(position) == UpdateText(<<"Activated ">> \o PositionStr(position), TRUE)
\* the status of a successful activation, for a position without a window
NoWindowAt_SaysActivated(position) ==
    UpdateText(<<"Activated ">> \o PositionStr(position), TRUE)
NoWindowAt(position) == UpdateText(<<"No window at ">> \o PositionStr(position), TRUE)

(***************************************************************************)
(* Tasks: a coroutine's position (pc) and its local variables.             *)
(***************************************************************************)
Frame(kind, pc) ==
    [kind |-> kind, pc |-> pc, position |-> NoPosition, session |-> NoSession,
     text |-> <<>>, snap |-> {}, todo |-> <<>>, prev |-> 0]

\* A coroutine that has returned leaves the event loop.
Finished(i) == SubSeq(tasks, 1, i - 1) \o SubSeq(tasks, i + 1, Len(tasks))

\* asyncio starts the tasks that create_task made in the order of creation.
CanStart(i) ==
    /\ i \in DOMAIN tasks
    /\ tasks[i].pc = "new"
    /\ \A j \in 1..(i - 1) : tasks[j].pc # "new"

\* What a direct call returned: for a refresh also the sessions it observed
\* (current_ids) and evicted (removed); before is the cache at its last step.
Result(op, value) ==
    [op |-> op, value |-> value, seen |-> {}, removed |-> {},
     before |-> active_session_id, resolved |-> <<>>]
NoResult ==
    [op |-> "none", value |-> "none", seen |-> {}, removed |-> {},
     before |-> NoSession, resolved |-> <<>>]

\* How refresh_sessions ended
Refreshed(seen, removed) ==
    [raised |-> FALSE, skipped |-> FALSE, seen |-> seen, removed |-> removed]
RefreshRaised == [raised |-> TRUE, skipped |-> FALSE, seen |-> {}, removed |-> {}]
\* lines 41-43: the controller is not connected
RefreshSkipped == [raised |-> FALSE, skipped |-> TRUE, seen |-> {}, removed |-> {}]

\* The user's actions at the terminal and the failures of the backend are
\* counted together.
Calm == nChurn + nFaults < MaxDisturbances

\* No text has been parsed.
NoParse == ParseResult("none", NoPosition, NoText)

\* The texts of the transcript events.
T_foo == <<"f","o","o">>
T_bar == <<" ","b","a","r">>
T_end_voice == <<"e","n","d"," ","v","o","i","c","e">>
T_bar_end_voice == <<"b","a","r"," ","E","n","d"," ","v","o","i","c","e">>
T_never_mind == <<"n","e","v","e","r"," ","m","i","n","d">>
T_go_to_left == <<"g","o"," ","t","o"," ","l","e","f","t">>
T_blank == <<" ">>
T_activate_the_upper_left_window == <<"a","c","t","i","v","a","t","e"," ","t","h","e"," ","u","p","p","e","r"," ","l","e","f","t"," ","w","i","n","d","o","w">>
T_go_to_the_kitchen == <<"g","o"," ","t","o"," ","t","h","e"," ","k","i","t","c","h","e","n">>
T_switch_to_the_left_pane_please == <<"s","w","i","t","c","h"," ","t","o"," ","t","h","e"," ","l","e","f","t"," ","p","a","n","e"," ","p","l","e","a","s","e">>
T_please == <<"p","l","e","a","s","e">>
T_deploy_the_service == <<"d","e","p","l","o","y"," ","t","h","e"," ","s","e","r","v","i","c","e">>
T_deploy_end_voice == <<"d","e","p","l","o","y"," ","t","h","e"," ","s","e","r","v","i","c","e"," ","e","n","d"," ","v","o","i","c","e">>

\* The final transcripts of the three events PlainText("foo"),
\* PlainText("bar"), EndOfInput(None); a blank transcript yields no event.
Script == <<T_foo, T_blank, T_bar, T_end_voice>>

FinalTexts == {T_bar, T_end_voice, T_bar_end_voice, T_never_mind, T_go_to_left}
InterimTexts == {T_end_voice}

\* CommandParser.parse on the texts of the events
Parsed ==
    [text \in FinalTexts \cup {Script[k] : k \in DOMAIN Script} |-> parse(text)]

\* Python's truth value of an Optional[str]
Truthy(opt) == opt # NoText /\ opt[1] # <<>>

(***************************************************************************)
(* main.py: what a task does when a call it awaited returns.  Each of      *)
(* these sets tasks, status, text_buffer, bufIds, daemon, connected and    *)
(* lastResult.                                                             *)
(***************************************************************************)
\* refresh_sessions returns to tasks[i], or raises
RefreshReturns(i, prev, outcome) ==
    LET kind == tasks[i].kind
        raised == outcome.raised
        count == get_session_count(sessions')
    IN  CASE kind = "init" ->
                \* start(): a failure of _init_components is fatal, its
                \* `finally` goes on to stop()
                /\ daemon' = IF raised THEN "leaving" ELSE "listening"
                /\ tasks' = IF raised THEN <<>>
                            ELSE <<Frame("periodic", "sleep")>>
                /\ status' = IF ~raised /\ overlay THEN SetListening ELSE status
                /\ UNCHANGED <<text_buffer, bufIds, connected, lastResult>>
          [] kind = "periodic" ->
                \* _periodic_session_refresh, lines 213-230
                /\ tasks' = [tasks EXCEPT ![i] = Frame("periodic", "sleep")]
                /\ status' = IF raised \/ ~overlay \/ count = prev THEN status
                             ELSE IF count = 0 THEN NoActiveSessions
                             ELSE IF prev = 0 THEN SetListening
                             ELSE status
                /\ UNCHANGED <<text_buffer, bufIds, daemon, connected, lastResult>>
          [] kind = "submit" ->
                \* _submit_text, lines 361-381
                /\ tasks' = Finished(i)
                /\ status' = IF raised THEN status
                             ELSE IF count > 0 THEN SetListening
                             ELSE NoActiveSessions
                /\ text_buffer' = <<>>
                /\ bufIds' = {}
                /\ UNCHANGED <<daemon, connected, lastResult>>
          [] OTHER ->
                \* a direct call of refresh_sessions
                /\ tasks' = Finished(i)
                /\ lastResult' = [Result("refresh_sessions",
                                          IF raised THEN "raised"
                                          ELSE IF outcome.skipped THEN "not connected"
                                          ELSE "returned")
                                     EXCEPT !.seen = outcome.seen,
                                            !.removed = outcome.removed,
                                            !.resolved =
                                                IF raised \/ outcome.skipped THEN <<>>
                                                ELSE PositionQueries(sessions')]
                /\ UNCHANGED <<status, text_buffer, bufIds, daemon, connected>>

\* _handle_window_command without its `except Exception`: a failure of
\* set_active_session ends the daemon
ActivateReturns_Propagates(i, raised) ==
    LET kind == tasks[i].kind
    IN  CASE kind = "window" ->
                /\ tasks' = IF raised THEN <<>> ELSE Finished(i)
                /\ daemon' = IF raised THEN "stopped" ELSE daemon
                /\ status' = IF ~raised /\ overlay
                             THEN Activated(tasks[i].position) ELSE status
                /\ UNCHANGED <<text_buffer, bufIds, connected, lastResult>>
          [] OTHER ->
                /\ tasks' = Finished(i)
                /\ lastResult' = Result("set_active_session",
                                        IF raised THEN "raised" ELSE "returned")
                /\ UNCHANGED <<status, text_buffer, bufIds, daemon, connected>>

\* set_active_session returns to tasks[i], or raises
ActivateReturns(i, raised) ==
    LET kind == tasks[i].kind
    IN  CASE kind = "window" ->
                \* _handle_window_command, lines 301-309
                /\ tasks' = Finished(i)
                /\ status' = IF ~raised /\ overlay
                             THEN Activated(tasks[i].position) ELSE status
                /\ UNCHANGED <<text_buffer, bufIds, daemon, connected, lastResult>>
          [] OTHER ->
                /\ tasks' = Finished(i)
                /\ lastResult' = Result("set_active_session",
                                        IF raised THEN "raised" ELSE "returned")
                /\ UNCHANGED <<status, text_buffer, bufIds, daemon, connected>>

\* send_text_to_active, submit_to_active or clear_current_line returns value
\* ("True" or "False") to tasks[i], or raises
SendReturns(i, value) ==
    LET kind == tasks[i].kind
    IN  CASE kind = "clear" ->
                \* _clear_and_restart, lines 334-340
                /\ tasks' = Finished(i)
                /\ status' = IF overlay THEN SetListening ELSE status
                /\ UNCHANGED <<text_buffer, bufIds, daemon, connected, lastResult>>
          [] kind = "submit" /\ value = "True" /\ overlay ->
                \* _submit_text, lines 354-357: "Submitted!", then sleep(1)
                /\ tasks' = [tasks EXCEPT ![i] = Frame("submit", "sleep")]
                /\ status' = Submitted
                /\ UNCHANGED <<text_buffer, bufIds, daemon, connected, lastResult>>
          [] kind = "submit" /\ ~(value = "True" /\ overlay) ->
                \* _submit_text, lines 373-381
                /\ tasks' = Finished(i)
                /\ status' = IF value = "False" /\ overlay THEN NoActiveSession ELSE status
                /\ text_buffer' = <<>>
                /\ bufIds' = {}
                /\ UNCHANGED <<daemon, connected, lastResult>>
          [] OTHER ->
                /\ tasks' = Finished(i)
                /\ lastResult' = Result(kind, value)
                /\ UNCHANGED <<status, text_buffer, bufIds, daemon, connected>>

(***************************************************************************)
(* session_manager.py: the steps of refresh_sessions between its awaits.   *)
(***************************************************************************)
\* refresh_sessions goes on with its loop after an await: it stops at the
\* next session to look up, or ends.
RefreshContinue(i, map, snap, todo) ==
    LET rest == RefreshSkip(map, todo)
    IN  IF rest # <<>>
        THEN /\ sessions' = map
             /\ active_session_id' = active_session_id
             /\ tasks' = [tasks EXCEPT ![i] =
                            [@ EXCEPT !.pc = "findtab", !.snap = snap, !.todo = rest]]
             /\ UNCHANGED <<status, text_buffer, bufIds, daemon, connected, lastResult>>
        ELSE LET r == RefreshFinish(map, active_session_id, snap)
             IN  /\ sessions' = r.sessions
                 /\ active_session_id' = r.active
                 /\ RefreshReturns(i, tasks[i].prev,
                                   Refreshed(snap, DOMAIN map \ snap))

\* refresh_sessions without its test of is_connected
RefreshCall_IgnoresConnection(i, prev) ==
    IF live = {}
    THEN LET r == RefreshFinish(sessions, active_session_id, {})
         IN  /\ sessions' = r.sessions
             /\ active_session_id' = r.active
             /\ RefreshReturns(i, prev, Refreshed({}, DOMAIN sessions))
    ELSE /\ UNCHANGED <<sessions, active_session_id>>
         /\ tasks' = [tasks EXCEPT ![i] =
                        [@ EXCEPT !.pc = "enum", !.snap = live, !.prev = prev]]
         /\ UNCHANGED <<status, text_buffer, bufIds, daemon, connected, lastResult>>

\* tasks[i] calls refresh_sessions: lines 41-46, up to the first await of
\* get_claude_sessions (there is none when iTerm2 has no pane at all)
RefreshCall(i, prev) ==
    IF ~connected
    THEN /\ UNCHANGED <<sessions, active_session_id>>
         /\ RefreshReturns(i, prev, RefreshSkipped)
    ELSE IF live = {}
    THEN LET r == RefreshFinish(sessions, active_session_id, {})
         IN  /\ sessions' = r.sessions
             /\ active_session_id' = r.active
             /\ RefreshReturns(i, prev, Refreshed({}, DOMAIN sessions))
    ELSE /\ UNCHANGED <<sessions, active_session_id>>
         /\ tasks' = [tasks EXCEPT ![i] =
                        [@ EXCEPT !.pc = "enum", !.snap = live, !.prev = prev]]
         /\ UNCHANGED <<status, text_buffer, bufIds, daemon, connected, lastResult>>

\* get_claude_sessions returns: of the panes listed at the call, those that
\* still exist and are classified as Claude.  A profile query that times out
\* classifies its pane as not Claude.
EnumDone(i) ==
    /\ UNCHANGED <<nCalls, parse_text, parse_result,
                   layout_root, layout_positions, find_target, find_result,
                   shutdown_event, released>>
    /\ i \in DOMAIN tasks
    /\ tasks[i].pc = "enum"
    /\ LET full == tasks[i].snap \cap live \cap Targets
       IN  \/ /\ nFaults' = nFaults /\ lastFault' = lastFault
              /\ RefreshContinue(i, sessions, full, Ordered(full))
           \/ /\ Calm
              /\ nFaults' = nFaults + 1 /\ lastFault' = "timeout"
              /\ \E s \in full :
                    RefreshContinue(i, sessions, full \ {s}, Ordered(full \ {s}))
    /\ UNCHANGED <<live, focus, overlay, sent, submitCalls, dropped, lastEvent,
                   nEvents, nChurn, nTicks>>

\* _find_session_tab returns (lines 56-62), or raises
FindTabDone(i) ==
    /\ UNCHANGED <<nCalls, parse_text, parse_result,
                   layout_root, layout_positions, find_target, find_result,
                   shutdown_event, released>>
    /\ i \in DOMAIN tasks
    /\ tasks[i].pc = "findtab"
    /\ LET session_id == Head(tasks[i].todo)
           tab == find_session_tab(session_id)
           registered == [id \in DOMAIN sessions \cup {session_id} |->
                            IF id = session_id THEN ManagedSession(tab)
                            ELSE sessions[id]]
       IN  \/ /\ nFaults' = nFaults /\ lastFault' = lastFault
              /\ RefreshContinue(i, IF tab # NoTab THEN registered ELSE sessions,
                                 tasks[i].snap, Tail(tasks[i].todo))
           \/ /\ Calm
              /\ nFaults' = nFaults + 1 /\ lastFault' = "error"
              /\ UNCHANGED <<sessions, active_session_id>>
              /\ RefreshReturns(i, tasks[i].prev, RefreshRaised)
    /\ UNCHANGED <<live, focus, overlay, sent, submitCalls, dropped, lastEvent,
                   nEvents, nChurn, nTicks>>

\* ITermController.activate_session returns, times out or raises, and
\* set_active_session goes on (lines 169-173)
ActivateDone(i) ==
    /\ UNCHANGED <<nCalls, parse_text, parse_result,
                   layout_root, layout_positions, find_target, find_result,
                   shutdown_event, released>>
    /\ i \in DOMAIN tasks
    /\ tasks[i].pc = "activate"
    /\ LET session == tasks[i].session
       IN  \/ /\ session \in live
              /\ focus' = session
              /\ nFaults' = nFaults /\ lastFault' = lastFault
              /\ active_session_id' = session
              /\ sessions' = set_active_flags(sessions, session)
              /\ ActivateReturns(i, FALSE)
           \/ \* asyncio.TimeoutError is logged and swallowed
              /\ Calm
              /\ nFaults' = nFaults + 1 /\ lastFault' = "timeout"
              /\ focus' = focus
              /\ active_session_id' = session
              /\ sessions' = set_active_flags(sessions, session)
              /\ ActivateReturns(i, FALSE)
           \/ \* any other exception is raised again
              /\ Calm \/ session \notin live
              /\ nFaults' = IF session \in live THEN nFaults + 1 ELSE nFaults
              /\ lastFault' = IF session \in live THEN "error" ELSE lastFault
              /\ UNCHANGED <<focus, sessions, active_session_id>>
              /\ ActivateReturns(i, TRUE)
    /\ UNCHANGED <<live, overlay, sent, submitCalls, dropped, lastEvent,
                   nEvents, nChurn, nTicks>>

\* ITermController.send_text returns, times out or raises
SendDone(i) ==
    /\ UNCHANGED <<nCalls, parse_text, parse_result,
                   layout_root, layout_positions, find_target, find_result,
                   shutdown_event, released>>
    /\ i \in DOMAIN tasks
    /\ tasks[i].pc = "send"
    /\ LET session == tasks[i].session
       IN  \/ /\ session \in live
              /\ nFaults' = nFaults /\ lastFault' = lastFault
              /\ SendReturns(i, "True")
           \/ \* asyncio.TimeoutError is logged and swallowed
              /\ Calm
              /\ nFaults' = nFaults + 1 /\ lastFault' = "timeout"
              /\ SendReturns(i, "True")
           \/ \* any other exception is raised again
              /\ Calm \/ session \notin live
              /\ nFaults' = IF session \in live THEN nFaults + 1 ELSE nFaults
              /\ lastFault' = IF session \in live THEN "error" ELSE lastFault
              /\ SendReturns(i, "raised")
    /\ UNCHANGED <<live, focus, sessions, active_session_id, overlay, sent,
                   submitCalls, dropped, lastEvent, nEvents, nChurn, nTicks>>

(***************************************************************************)
(* main.py: the daemon.                                                    *)
(***************************************************************************)
\* _init_components, line 116: the first refresh
InitStart(i) ==
    /\ UNCHANGED <<nCalls, lastFault, parse_text, parse_result,
                   layout_root, layout_positions, find_target, find_result,
                   shutdown_event, released>>
    /\ CanStart(i)
    /\ tasks[i].kind = "init"
    /\ RefreshCall(i, 0)
    /\ UNCHANGED <<live, focus, overlay, sent, submitCalls, dropped, lastEvent,
                   nEvents, nChurn, nFaults, nTicks>>

\* a tick that takes the registry for empty before its refresh
TickWake_ForgetsCount(i) ==
    /\ UNCHANGED <<nCalls, lastFault, parse_text, parse_result,
                   layout_root, layout_positions, find_target, find_result,
                   shutdown_event, released>>
    /\ i \in DOMAIN tasks
    /\ tasks[i].kind = "periodic"
    /\ tasks[i].pc = "sleep"
    /\ ~shutdown_event
    /\ nTicks < MaxTicks
    /\ nTicks' = nTicks + 1
    /\ RefreshCall(i, 0)
    /\ UNCHANGED <<live, focus, overlay, sent, submitCalls, dropped, lastEvent,
                   nEvents, nChurn, nFaults>>

\* _periodic_session_refresh, lines 205-212: the sleep ends
TickWake(i) ==
    /\ UNCHANGED <<nCalls, lastFault, parse_text, parse_result,
                   layout_root, layout_positions, find_target, find_result,
                   shutdown_event, released>>
    /\ i \in DOMAIN tasks
    /\ tasks[i].kind = "periodic"
    /\ tasks[i].pc = "sleep"
    /\ ~shutdown_event
    /\ nTicks < MaxTicks
    /\ nTicks' = nTicks + 1
    /\ RefreshCall(i, get_session_count(sessions))
    /\ UNCHANGED <<live, focus, overlay, sent, submitCalls, dropped, lastEvent,
                   nEvents, nChurn, nFaults>>

\* The mark of an event whose text went into the buffer
Heard(event, type) == [event |-> event, type |-> type]

\* a PlainText whose text replaces the buffer
Accumulate_Overwrites(buffer, text) == text

\* a PlainText that is appended without the separating space
Accumulate_NoSpace(buffer, text) == buffer \o text

\* _process_transcript, lines 285-288: the buffer after a PlainText
Accumulate(buffer, text) ==
    IF buffer # <<>> THEN buffer \o <<" ">> \o text ELSE text

\* _process_transcript
process_transcript(text, event) ==
    IF Strip(text) = <<>>
    THEN UNCHANGED <<text_buffer, bufIds, tasks>>
    ELSE LET result == Parsed[text]
         IN  CASE result.type = "WINDOW_COMMAND" ->
                    /\ tasks' = Append(tasks, [Frame("window", "new") EXCEPT
                                                 !.position = result.position])
                    /\ UNCHANGED <<text_buffer, bufIds>>
               [] result.type = "CLEAR_RESTART" ->
                    /\ tasks' = Append(tasks, Frame("clear", "new"))
                    /\ UNCHANGED <<text_buffer, bufIds>>
               [] result.type = "END_VOICE" ->
                    /\ text_buffer' = IF Truthy(result.text)
                                      THEN text_buffer \o <<" ">> \o result.text[1]
                                      ELSE text_buffer
                    /\ bufIds' = IF Truthy(result.text)
                                 THEN bufIds \cup {Heard(event, "END_VOICE")}
                                 ELSE bufIds
                    /\ tasks' = Append(tasks, Frame("submit", "new"))
               [] OTHER ->
                    /\ text_buffer' = Accumulate(text_buffer, result.text[1])
                    /\ bufIds' = bufIds \cup {Heard(event, "TEXT")}
                    /\ UNCHANGED tasks

\* _on_transcript without the early return for an interim transcript
OnTranscript_ClassifiesInterim(text, is_final) ==
    /\ UNCHANGED <<nCalls, lastFault, parse_text, parse_result,
                   layout_root, layout_positions, find_target, find_result,
                   shutdown_event, released>>
    /\ daemon = "listening"
    /\ nEvents' = nEvents + 1
    /\ lastEvent' = [text |-> text, is_final |-> is_final]
    /\ status' = IF overlay THEN UpdateText(text, is_final) ELSE status
    /\ process_transcript(text, nEvents + 1)
    /\ UNCHANGED <<live, focus, connected, sessions, active_session_id, overlay,
                   daemon, sent, submitCalls, dropped, nChurn, nFaults, nTicks,
                   lastResult>>

\* _on_transcript
OnTranscript(text, is_final) ==
    /\ UNCHANGED <<nCalls, lastFault, parse_text, parse_result,
                   layout_root, layout_positions, find_target, find_result,
                   shutdown_event, released>>
    /\ daemon = "listening"
    /\ nEvents' = nEvents + 1
    /\ lastEvent' = [text |-> text, is_final |-> is_final]
    /\ status' = IF overlay THEN UpdateText(text, is_final) ELSE status
    /\ IF is_final
       THEN process_transcript(text, nEvents + 1)
       ELSE UNCHANGED <<text_buffer, bufIds, tasks>>
    /\ UNCHANGED <<live, focus, connected, sessions, active_session_id, overlay,
                   daemon, sent, submitCalls, dropped, nChurn, nFaults, nTicks,
                   lastResult>>

\* _handle_window_command up to the await in activate_session
WindowStart(i) ==
    /\ UNCHANGED <<nCalls, lastFault, parse_text, parse_result,
                   layout_root, layout_positions, find_target, find_result,
                   shutdown_event, released>>
    /\ CanStart(i)
    /\ tasks[i].kind = "window"
    /\ LET session == get_session_for_position(tasks[i].position)
       IN  IF session # NoSession
           THEN /\ tasks' = [tasks EXCEPT ![i] =
                               [@ EXCEPT !.pc = "activate", !.session = session]]
                /\ UNCHANGED status
           ELSE /\ tasks' = Finished(i)
                /\ status' = IF overlay THEN NoWindowAt(tasks[i].position) ELSE status
    /\ UNCHANGED <<live, focus, connected, sessions, active_session_id, text_buffer,
                   overlay, daemon, sent, submitCalls, bufIds, dropped, lastEvent,
                   nEvents, nChurn, nFaults, nTicks, lastResult>>

\* _clear_and_restart up to the await in send_text
ClearStart(i) ==
    /\ UNCHANGED <<nCalls, lastFault, parse_text, parse_result,
                   layout_root, layout_positions, find_target, find_result,
                   shutdown_event, released>>
    /\ CanStart(i)
    /\ tasks[i].kind = "clear"
    /\ text_buffer' = <<>>
    /\ bufIds' = {}
    /\ dropped' = dropped \cup bufIds
    /\ LET r == get_active_session
       IN  /\ active_session_id' = r.active
           /\ IF r.session # NoSession
              THEN /\ sent' = Append(sent, [session |-> r.session, text |-> ClearSequence])
                   /\ tasks' = [tasks EXCEPT ![i] =
                                  [@ EXCEPT !.pc = "send", !.session = r.session]]
                   /\ UNCHANGED status
              ELSE /\ sent' = sent
                   /\ tasks' = Finished(i)
                   /\ status' = IF overlay THEN SetListening ELSE status
    /\ UNCHANGED <<live, focus, connected, sessions, overlay, daemon, submitCalls,
                   lastEvent, nEvents, nChurn, nFaults, nTicks, lastResult>>

\* _submit_text up to the await in send_text
SubmitStart(i) ==
    /\ UNCHANGED <<nCalls, lastFault, parse_text, parse_result,
                   layout_root, layout_positions, find_target, find_result,
                   shutdown_event, released>>
    /\ CanStart(i)
    /\ tasks[i].kind = "submit"
    /\ IF Strip(text_buffer) = <<>>
       THEN /\ tasks' = Finished(i)
            /\ UNCHANGED <<text_buffer, bufIds, submitCalls, sent, status,
                           active_session_id>>
       ELSE LET r == get_active_session
                text == Strip(text_buffer)
            IN  /\ submitCalls' = Append(submitCalls, [text |-> text, ids |-> bufIds])
                /\ active_session_id' = r.active
                /\ IF r.session # NoSession
                   THEN /\ sent' = Append(sent, [session |-> r.session,
                                                 text |-> WithNewline(text)])
                        /\ tasks' = [tasks EXCEPT ![i] =
                                       [@ EXCEPT !.pc = "send", !.session = r.session]]
                        /\ UNCHANGED <<text_buffer, bufIds, status>>
                   ELSE /\ sent' = sent
                        /\ tasks' = Finished(i)
                        /\ status' = IF overlay THEN NoActiveSession ELSE status
                        /\ text_buffer' = <<>>
                        /\ bufIds' = {}
    /\ UNCHANGED <<live, focus, connected, sessions, overlay, daemon, dropped,
                   lastEvent, nEvents, nChurn, nFaults, nTicks, lastResult>>

\* _submit_text, lines 357-360: the sleep ends and the refresh is called
SleepDone(i) ==
    /\ UNCHANGED <<nCalls, lastFault, parse_text, parse_result,
                   layout_root, layout_positions, find_target, find_result,
                   shutdown_event, released>>
    /\ i \in DOMAIN tasks
    /\ tasks[i].kind = "submit"
    /\ tasks[i].pc = "sleep"
    /\ RefreshCall(i, 0)
    /\ UNCHANGED <<live, focus, overlay, sent, submitCalls, dropped, lastEvent,
                   nEvents, nChurn, nFaults, nTicks>>

(***************************************************************************)
(* main.py: the end of the daemon.  start() leaves _main_loop and its       *)
(* `finally` runs stop().                                                  *)
(***************************************************************************)
\* What stop() did with a resource: "stopped", or "timeout" when its wait_for
\* gave up
Release(resource, outcome) == [resource |-> resource, outcome |-> outcome]

\* self._overlay is set: _init_components has come to create the overlay
OverlayStarted == overlay /\ status # NoStatus

\* _signal_handler: SIGINT or SIGTERM sets the shutdown event
Signal ==
    /\ daemon = "listening"
    /\ ~shutdown_event
    /\ shutdown_event' = TRUE
    /\ UNCHANGED <<live, focus, connected, sessions, active_session_id,
                   text_buffer, overlay, status, daemon, tasks, sent,
                   submitCalls, bufIds, dropped, lastEvent, nEvents, nChurn,
                   nFaults, nTicks, nCalls, lastResult, lastFault, parse_text,
                   parse_result, layout_root, layout_positions, find_target,
                   find_result, released>>

\* a main loop that does not look at the shutdown event
MainLoopExit_IgnoresEvent ==
    /\ daemon = "listening"
    /\ shutdown_event
    /\ UNCHANGED vars

\* _main_loop, lines 180-197: the next audio chunk arrives, the loop finds the
\* event set and breaks; the `finally` cancels the refresh task, which makes
\* no step any more, and awaits it
MainLoopExit ==
    /\ daemon = "listening"
    /\ shutdown_event
    /\ daemon' = "leaving"
    /\ tasks' = SelectSeq(tasks, LAMBDA frame : frame.kind # "periodic")
    /\ UNCHANGED <<live, focus, connected, sessions, active_session_id,
                   text_buffer, overlay, status, sent, submitCalls, bufIds,
                   dropped, lastEvent, nEvents, nChurn, nFaults, nTicks, nCalls,
                   lastResult, lastFault, parse_text, parse_result, layout_root,
                   layout_positions, find_target, find_result, shutdown_event,
                   released>>

\* _main_loop with AudioCapture.get_audio_stream, capture.py lines 133-137:
\* the audio queue fails, the stream ends and with it the loop, no signal
\* having come
AudioStreamEnds ==
    /\ daemon = "listening"
    /\ ~shutdown_event
    /\ Calm
    /\ nFaults' = nFaults + 1
    /\ lastFault' = "error"
    /\ daemon' = "leaving"
    /\ tasks' = SelectSeq(tasks, LAMBDA frame : frame.kind # "periodic")
    /\ UNCHANGED <<live, focus, connected, sessions, active_session_id,
                   text_buffer, overlay, status, sent, submitCalls, bufIds,
                   dropped, lastEvent, nEvents, nChurn, nTicks, nCalls,
                   lastResult, parse_text, parse_result, layout_root,
                   layout_positions, find_target, find_result, shutdown_event,
                   released>>

\* _periodic_session_refresh, lines 205-209: the task wakes, finds the event
\* set and returns
PeriodicExit(i) ==
    /\ i \in DOMAIN tasks
    /\ tasks[i].kind = "periodic"
    /\ tasks[i].pc = "sleep"
    /\ shutdown_event
    /\ tasks' = Finished(i)
    /\ UNCHANGED <<live, focus, connected, sessions, active_session_id,
                   text_buffer, overlay, status, daemon, sent, submitCalls,
                   bufIds, dropped, lastEvent, nEvents, nChurn, nFaults, nTicks,
                   nCalls, lastResult, lastFault, parse_text, parse_result,
                   layout_root, layout_positions, find_target, find_result,
                   shutdown_event, released>>

\* stop(), lines 385-392: the audio capture is stopped, then stop_streaming
\* is awaited for at most 3 s
StopStart ==
    /\ daemon = "leaving"
    /\ released' = Append(released, Release("audio", "stopped"))
    /\ daemon' = "stop_transcriber"
    /\ UNCHANGED <<live, focus, connected, sessions, active_session_id,
                   text_buffer, overlay, status, tasks, sent, submitCalls,
                   bufIds, dropped, lastEvent, nEvents, nChurn, nFaults, nTicks,
                   nCalls, lastResult, lastFault, parse_text, parse_result,
                   layout_root, layout_positions, find_target, find_result,
                   shutdown_event>>

\* a stop() that gives up when stop_streaming times out
TranscriberStopped_TimeoutAborts ==
    /\ daemon = "stop_transcriber"
    /\ \E outcome \in {"stopped", "timeout"} :
          /\ released' = Append(released, Release("transcriber", outcome))
                           \o (IF OverlayStarted /\ outcome = "stopped"
                               THEN <<Release("overlay", "stopped")>> ELSE <<>>)
          /\ daemon' = IF outcome = "stopped" THEN "stop_iterm" ELSE "stopped"
          /\ tasks' = IF outcome = "stopped" THEN tasks ELSE <<>>
    /\ UNCHANGED <<live, focus, connected, sessions, active_session_id,
                   text_buffer, overlay, status, sent, submitCalls,
                   bufIds, dropped, lastEvent, nEvents, nChurn, nFaults, nTicks,
                   nCalls, lastResult, lastFault, parse_text, parse_result,
                   layout_root, layout_positions, find_target, find_result,
                   shutdown_event>>

\* stop(), lines 390-402: stop_streaming has returned or its wait_for has
\* timed out; the overlay, if there is one, is stopped, then disconnect is
\* awaited for at most 2 s
TranscriberStopped ==
    /\ daemon = "stop_transcriber"
    /\ \E outcome \in {"stopped", "timeout"} :
          released' = Append(released, Release("transcriber", outcome))
                        \o (IF OverlayStarted
                            THEN <<Release("overlay", "stopped")>> ELSE <<>>)
    /\ daemon' = "stop_iterm"
    /\ UNCHANGED <<live, focus, connected, sessions, active_session_id,
                   text_buffer, overlay, status, tasks, sent, submitCalls,
                   bufIds, dropped, lastEvent, nEvents, nChurn, nFaults, nTicks,
                   nCalls, lastResult, lastFault, parse_text, parse_result,
                   layout_root, layout_positions, find_target, find_result,
                   shutdown_event>>

\* stop(), lines 399-410: disconnect has returned or its wait_for has timed
\* out (disconnect resets _connected before it could be suspended); stop()
\* and start() return and the event loop ends with the tasks left
BackendDisconnected ==
    /\ daemon = "stop_iterm"
    /\ \E outcome \in {"stopped", "timeout"} :
          released' = Append(released, Release("iterm", outcome))
    /\ connected' = FALSE
    /\ daemon' = "stopped"
    /\ tasks' = <<>>
    /\ UNCHANGED <<live, focus, sessions, active_session_id, text_buffer,
                   overlay, status, sent, submitCalls, bufIds, dropped,
                   lastEvent, nEvents, nChurn, nFaults, nTicks, nCalls,
                   lastResult, lastFault, parse_text, parse_result, layout_root,
                   layout_positions, find_target, find_result, shutdown_event>>

Stop == StopStart \/ TranscriberStopped \/ BackendDisconnected

(***************************************************************************)
(* The user at the terminal.                                               *)
(***************************************************************************)
Running == daemon \in {"init", "listening", "direct"}

OpenPane(s) ==
    /\ UNCHANGED <<nCalls, lastFault, parse_text, parse_result,
                   layout_root, layout_positions, find_target, find_result,
                   shutdown_event, released>>
    /\ Running
    /\ Calm
    /\ s \notin live
    /\ live' = live \cup {s}
    /\ focus' = s
    /\ nChurn' = nChurn + 1
    /\ UNCHANGED <<connected, sessions, active_session_id, text_buffer, overlay,
                   status, daemon, tasks, sent, submitCalls, bufIds, dropped,
                   lastEvent, nEvents, nFaults, nTicks, lastResult>>

ClosePane(s) ==
    /\ UNCHANGED <<nCalls, lastFault, parse_text, parse_result,
                   layout_root, layout_positions, find_target, find_result,
                   shutdown_event, released>>
    /\ Running
    /\ Calm
    /\ s \in live
    /\ live' = live \ {s}
    /\ focus' \in (IF focus # s THEN {focus}
                   ELSE IF live = {s} THEN {NoSession} ELSE live \ {s})
    /\ nChurn' = nChurn + 1
    /\ UNCHANGED <<connected, sessions, active_session_id, text_buffer, overlay,
                   status, daemon, tasks, sent, submitCalls, bufIds, dropped,
                   lastEvent, nEvents, nFaults, nTicks, lastResult>>

FocusPane(s) ==
    /\ UNCHANGED <<nCalls, lastFault, parse_text, parse_result,
                   layout_root, layout_positions, find_target, find_result,
                   shutdown_event, released>>
    /\ Running
    /\ Calm
    /\ s \in live
    /\ s # focus
    /\ focus' = s
    /\ nChurn' = nChurn + 1
    /\ UNCHANGED <<live, connected, sessions, active_session_id, text_buffer,
                   overlay, status, daemon, tasks, sent, submitCalls, bufIds,
                   dropped, lastEvent, nEvents, nFaults, nTicks, lastResult>>

User == \E s \in Sessions : OpenPane(s) \/ ClosePane(s) \/ FocusPane(s)

(***************************************************************************)
(* The daemon: from TalkToClaudeDaemon.start() on.                         *)
(***************************************************************************)
Init ==
    /\ live \in {{}, Sessions}
    /\ focus \in (IF live = {} THEN {NoSession} ELSE live)
    /\ connected = TRUE
    /\ sessions = <<>>
    /\ active_session_id = NoSession
    /\ text_buffer = <<>>
    /\ overlay \in BOOLEAN
    /\ status = NoStatus
    /\ daemon = "init"
    /\ tasks = <<Frame("init", "new")>>
    /\ sent = <<>>
    /\ submitCalls = <<>>
    /\ bufIds = {}
    /\ dropped = {}
    /\ lastEvent = [text |-> <<>>, is_final |-> FALSE]
    /\ nEvents = 0
    /\ nChurn = 0
    /\ nFaults = 0
    /\ nTicks = 0
    /\ nCalls = 0
    /\ lastResult = NoResult
    /\ lastFault = "none"
    /\ NoLayout
    /\ NotStopping
    /\ parse_text = <<>>
    /\ parse_result = NoParse

Transcript ==
    /\ nEvents < MaxEvents
    /\ \/ \E text \in FinalTexts : OnTranscript(text, TRUE)
       \/ \E text \in InterimTexts : OnTranscript(text, FALSE)

\* The periodic task and one task for each transcript event
MaxTasks == MaxEvents + 1

TaskStep ==
    \E i \in 1..MaxTasks :
        \/ InitStart(i)
        \/ TickWake(i)
        \/ WindowStart(i)
        \/ ClearStart(i)
        \/ SubmitStart(i)
        \/ SleepDone(i)
        \/ EnumDone(i)
        \/ FindTabDone(i)
        \/ ActivateDone(i)
        \/ SendDone(i)

Next == Transcript \/ TaskStep \/ User \/ Stop

Spec == Init /\ [][Next]_vars

(***************************************************************************)
(* The daemon hearing the transcripts of Script, in their order.           *)
(***************************************************************************)
ScriptedTranscript ==
    /\ nEvents < Len(Script)
    /\ OnTranscript(Script[nEvents + 1], TRUE)

InitScript ==
    /\ live \in SUBSET Sessions
    /\ focus \in (IF live = {} THEN {NoSession} ELSE live)
    /\ connected = TRUE
    /\ sessions = <<>>
    /\ active_session_id = NoSession
    /\ text_buffer = <<>>
    /\ overlay \in BOOLEAN
    /\ status = NoStatus
    /\ daemon = "init"
    /\ tasks = <<Frame("init", "new")>>
    /\ sent = <<>>
    /\ submitCalls = <<>>
    /\ bufIds = {}
    /\ dropped = {}
    /\ lastEvent = [text |-> <<>>, is_final |-> FALSE]
    /\ nEvents = 0
    /\ nChurn = 0
    /\ nFaults = 0
    /\ nTicks = 0
    /\ nCalls = 0
    /\ lastResult = NoResult
    /\ lastFault = "none"
    /\ NoLayout
    /\ NotStopping
    /\ parse_text = <<>>
    /\ parse_result = NoParse

\* The script creates submit tasks only.
ScriptTaskStep ==
    \E i \in 1..MaxTasks :
        \/ InitStart(i)
        \/ TickWake(i)
        \/ SubmitStart(i)
        \/ SleepDone(i)
        \/ EnumDone(i)
        \/ FindTabDone(i)
        \/ SendDone(i)

NextScript == ScriptedTranscript \/ ScriptTaskStep \/ User \/ Stop

SpecScript == InitScript /\ [][NextScript]_vars

(***************************************************************************)
(* The daemon hearing the script and receiving a shutdown signal.          *)
(***************************************************************************)
Leave == Signal \/ MainLoopExit \/ AudioStreamEnds
             \/ \E i \in 1..MaxTasks : PeriodicExit(i)

NextShutdown == NextScript \/ Leave

SpecShutdown == InitScript /\ [][NextShutdown]_vars

\* The event loop runs every task that is ready, audio chunks keep coming
\* from the capture, and each wait_for in stop() ends after its timeout at
\* the latest.
FairShutdown ==
    /\ InitScript
    /\ [][NextShutdown]_vars
    /\ WF_vars(MainLoopExit)
    /\ WF_vars(StopStart)
    /\ WF_vars(TranscriberStopped)
    /\ WF_vars(BackendDisconnected)

(***************************************************************************)
(* The session manager on its own: a caller makes direct calls of its      *)
(* methods while the user changes the terminal.                            *)
(***************************************************************************)
\* The caller calls a method; the coroutine runs when the loop reaches it.
Call(kind, session, text) ==
    /\ UNCHANGED <<lastFault, parse_text, parse_result,
                   layout_root, layout_positions, find_target, find_result,
                   shutdown_event, released>>
    /\ daemon = "direct"
    /\ nCalls < MaxCalls
    /\ nCalls' = nCalls + 1
    /\ tasks' = Append(tasks, [Frame(kind, "new") EXCEPT !.session = session,
                                                         !.text = text])
    /\ UNCHANGED <<live, focus, connected, sessions, active_session_id,
                   text_buffer, overlay, status, daemon, sent, submitCalls,
                   bufIds, dropped, lastEvent, nEvents, nChurn, nFaults, nTicks,
                   lastResult>>

CallRefresh == Call("refresh", NoSession, <<>>)
CallGetActive == Call("get_active", NoSession, <<>>)
\* the argument is any session object of iTerm2 that the caller holds
CallSetActive == \E s \in Sessions : s \in live /\ Call("set_active", s, <<>>)
CallSendText == Call("send_text", NoSession, T_foo)
CallSubmit == Call("submit_to", NoSession, T_foo)
CallClearLine == Call("clear_line", NoSession, <<>>)

\* refresh_sessions up to its first await
RefreshStart(i) ==
    /\ UNCHANGED <<lastFault, parse_text, parse_result,
                   layout_root, layout_positions, find_target, find_result,
                   shutdown_event, released>>
    /\ CanStart(i)
    /\ tasks[i].kind = "refresh"
    /\ RefreshCall(i, 0)
    /\ UNCHANGED <<live, focus, overlay, sent, submitCalls, dropped, lastEvent,
                   nEvents, nChurn, nFaults, nTicks, nCalls>>

\* get_active_session: it never suspends
GetActive(i) ==
    /\ UNCHANGED <<lastFault, parse_text, parse_result,
                   layout_root, layout_positions, find_target, find_result,
                   shutdown_event, released>>
    /\ CanStart(i)
    /\ tasks[i].kind = "get_active"
    /\ LET r == get_active_session
       IN  /\ active_session_id' = r.active
           /\ lastResult' = Result("get_active_session", r.session)
    /\ tasks' = Finished(i)
    /\ UNCHANGED <<live, focus, connected, sessions, text_buffer, overlay, status,
                   daemon, sent, submitCalls, bufIds, dropped, lastEvent, nEvents,
                   nChurn, nFaults, nTicks, nCalls>>

\* set_active_session up to the await in activate_session
SetActiveStart(i) ==
    /\ UNCHANGED <<lastFault, parse_text, parse_result,
                   layout_root, layout_positions, find_target, find_result,
                   shutdown_event, released>>
    /\ CanStart(i)
    /\ tasks[i].kind = "set_active"
    /\ tasks' = [tasks EXCEPT ![i] = [@ EXCEPT !.pc = "activate"]]
    /\ UNCHANGED <<live, focus, connected, sessions, active_session_id,
                   text_buffer, overlay, status, daemon, sent, submitCalls,
                   bufIds, dropped, lastEvent, nEvents, nChurn, nFaults, nTicks,
                   nCalls, lastResult>>

\* The text that a method hands to ITermController.send_text
Payload(kind, text) ==
    CASE kind = "send_text" -> text
      [] kind = "submit_to" -> WithNewline(text)
      [] kind = "clear_line" -> ClearSequence

\* send_text_to_active, submit_to_active, clear_current_line up to the await
\* in send_text
SendStart(i) ==
    /\ UNCHANGED <<lastFault, parse_text, parse_result,
                   layout_root, layout_positions, find_target, find_result,
                   shutdown_event, released>>
    /\ CanStart(i)
    /\ tasks[i].kind \in {"send_text", "submit_to", "clear_line"}
    /\ submitCalls' = IF tasks[i].kind = "submit_to"
                      THEN Append(submitCalls, [text |-> tasks[i].text, ids |-> {}])
                      ELSE submitCalls
    /\ LET r == get_active_session
       IN  /\ active_session_id' = r.active
           /\ IF r.session # NoSession
              THEN /\ sent' = Append(sent, [session |-> r.session,
                                            text |-> Payload(tasks[i].kind, tasks[i].text)])
                   /\ tasks' = [tasks EXCEPT ![i] =
                                  [@ EXCEPT !.pc = "send", !.session = r.session]]
                   /\ UNCHANGED lastResult
              ELSE /\ sent' = sent
                   /\ tasks' = Finished(i)
                   /\ lastResult' = Result(tasks[i].kind, "False")
    /\ UNCHANGED <<live, focus, connected, sessions, text_buffer, overlay, status,
                   daemon, bufIds, dropped, lastEvent, nEvents, nChurn, nFaults,
                   nTicks, nCalls>>

\* ITermController.disconnect, called by the owner of the controller when no
\* call of the session manager is under way
Disconnect ==
    /\ UNCHANGED <<lastFault, parse_text, parse_result,
                   layout_root, layout_positions, find_target, find_result,
                   shutdown_event, released>>
    /\ daemon = "direct"
    /\ tasks = <<>>
    /\ connected
    /\ connected' = FALSE
    /\ UNCHANGED <<live, focus, sessions, active_session_id, text_buffer,
                   overlay, status, daemon, tasks, sent, submitCalls, bufIds,
                   dropped, lastEvent, nEvents, nChurn, nFaults, nTicks, nCalls,
                   lastResult>>

InitRegistry ==
    /\ live \in SUBSET Sessions
    /\ focus \in (IF live = {} THEN {NoSession} ELSE live)
    /\ connected = TRUE
    /\ sessions = <<>>
    /\ active_session_id = NoSession
    /\ text_buffer = <<>>
    /\ overlay = FALSE
    /\ status = NoStatus
    /\ daemon = "direct"
    /\ tasks = <<>>
    /\ sent = <<>>
    /\ submitCalls = <<>>
    /\ bufIds = {}
    /\ dropped = {}
    /\ lastEvent = [text |-> <<>>, is_final |-> FALSE]
    /\ nEvents = 0
    /\ nChurn = 0
    /\ nFaults = 0
    /\ nTicks = 0
    /\ nCalls = 0
    /\ lastResult = NoResult
    /\ lastFault = "none"
    /\ NoLayout
    /\ NotStopping
    /\ parse_text = <<>>
    /\ parse_result = NoParse

Caller ==
    \/ CallRefresh
    \/ CallGetActive
    \/ CallSetActive
    \/ CallSendText
    \/ CallSubmit
    \/ CallClearLine
    \/ Disconnect

CallStep ==
    \E i \in 1..MaxCalls :
        \/ RefreshStart(i)
        \/ GetActive(i)
        \/ SetActiveStart(i)
        \/ SendStart(i)
        \/ EnumDone(i)
        \/ FindTabDone(i)
        \/ ActivateDone(i)
        \/ SendDone(i)

NextRegistry == Caller \/ CallStep \/ User

SpecRegistry == InitRegistry /\ [][NextRegistry]_vars

(***************************************************************************)
(* The claims about the session registry, under SpecRegistry.              *)
(***************************************************************************)
\* tasks[i] is a call that returns in this step
Returns(i, kind) ==
    /\ i \in DOMAIN tasks
    /\ tasks[i].kind = kind
    /\ tasks' = Finished(i)

\* C3: in every reachable state of the registry the cached active session id
\* is unset or a key of the registry mapping.
C3_CacheIsRegistered ==
    active_session_id = NoSession \/ active_session_id \in DOMAIN sessions

\* C4: when a refresh completes, every key of the registry is a session this
\* refresh observed, and the cache is cleared if it named an evicted session;
\* whenever get_active_session returns, it returns no session or a key of the
\* registry, hence never an evicted one.
C4_RefreshEvicts ==
    [][ /\ (\E i \in 1..MaxCalls : Returns(i, "refresh")
                                   /\ lastResult'.op = "refresh_sessions"
                                   /\ lastResult'.value = "returned")
            => /\ DOMAIN sessions' \subseteq lastResult'.seen
               /\ DOMAIN sessions \ lastResult'.seen \subseteq lastResult'.removed
               /\ active_session_id \in lastResult'.removed
                    => active_session_id' = NoSession
               /\ active_session_id' \notin lastResult'.removed
        /\ (\E i \in 1..MaxCalls : Returns(i, "get_active"))
            => /\ lastResult'.value \in DOMAIN sessions' \cup {NoSession}
               /\ lastResult'.value \in DOMAIN sessions \cup {NoSession}
      ]_vars

\* A refresh has evicted the session that was cached as active and has left
\* another one registered.
C4_Witness ==
    /\ lastResult.op = "refresh_sessions"
    /\ lastResult.value = "returned"
    /\ lastResult.before # NoSession
    /\ lastResult.before \in lastResult.removed
    /\ DOMAIN sessions # {}
    /\ active_session_id = NoSession

\* The session the backend reports as focused, if any
Focused == IF connected /\ focus # NoSession THEN focus ELSE NoSession

\* C5: get_active_session returns (1) the focused session if it is a registry
\* key, and caches it, whatever was cached; (2) otherwise the cached id if it
\* is a registry key; (3) otherwise the only registered session, and caches
\* it; (4) otherwise no session, and the cache is left unchanged.
C5_ResolutionOrder ==
    [][ (\E i \in 1..MaxCalls : Returns(i, "get_active"))
        => LET result == lastResult'.value
               keys == DOMAIN sessions
           IN  /\ sessions' = sessions
               /\ Focused \in keys
                    => result = Focused /\ active_session_id' = Focused
               /\ Focused \notin keys /\ active_session_id \in keys
                    => result = active_session_id
                       /\ active_session_id' = active_session_id
               /\ Focused \notin keys /\ active_session_id \notin keys
                  /\ Cardinality(keys) = 1
                    => result \in keys /\ active_session_id' = result
               /\ Focused \notin keys /\ active_session_id \notin keys
                  /\ Cardinality(keys) # 1
                    => result = NoSession
                       /\ active_session_id' = active_session_id
      ]_vars

\* get_active_session has returned the focused session although another
\* registered session was cached.
C5_Witness ==
    /\ lastResult.op = "get_active_session"
    /\ lastResult.value # NoSession
    /\ lastResult.value = focus
    /\ lastResult.before \in DOMAIN sessions
    /\ lastResult.before # lastResult.value
    /\ active_session_id = lastResult.value

(***************************************************************************)
(* The claims about the daemon's dispatch.                                 *)
(***************************************************************************)
\* No submit task is left
SubmitFinished == \A i \in DOMAIN tasks : tasks[i].kind # "submit"

\* C6: for PlainText("foo"), PlainText("bar"), EndOfInput(None) the daemon
\* calls submit_to_active exactly once, with exactly "foo bar", and once the
\* submit task has finished the buffer is empty, whatever the outcome of the
\* submit.  (Under SpecScript.)
C6_SubmitsFooBarOnce ==
    /\ Len(submitCalls) <= 1
    /\ nEvents < Len(Script) => submitCalls = <<>>
    /\ \A c \in DOMAIN submitCalls :
          submitCalls[c].text = <<"f", "o", "o", " ", "b", "a", "r">>
    /\ nEvents = Len(Script) /\ SubmitFinished
          => Len(submitCalls) = 1 /\ text_buffer = <<>>

\* The script has been heard, the submit found no active session and its
\* task has finished.
C6_Witness ==
    /\ nEvents = Len(Script)
    /\ SubmitFinished
    /\ Len(submitCalls) = 1
    /\ sent = <<>>
    /\ status = NoActiveSession
    /\ text_buffer = <<>>

\* tasks[i] is a task of this kind that runs its first step
Starts(i, kind) ==
    /\ i \in DOMAIN tasks
    /\ tasks[i].kind = kind
    /\ tasks[i].pc = "new"
    /\ \/ tasks' = Finished(i)
       \/ Len(tasks') = Len(tasks) /\ tasks'[i].pc # "new"

\* tasks[i] is a task of this kind that ends when the call it awaits returns
Ends(i, kind) ==
    /\ i \in DOMAIN tasks
    /\ tasks[i].kind = kind
    /\ tasks[i].pc # "new"
    /\ tasks' = Finished(i)

\* A transcript with this text and flag is handled in this step
Hears(text, is_final) ==
    /\ nEvents' = nEvents + 1
    /\ lastEvent' = [text |-> text, is_final |-> is_final]

\* C1: the text that PlainText events put in the buffer is passed to
\* submit_to_active at most once: no event's text is in two calls.
C1_SubmittedAtMostOnce ==
    \A a, b \in DOMAIN submitCalls :
        a # b => \A e \in submitCalls[a].ids \cap submitCalls[b].ids :
                    e.type # "TEXT"

\* C2: text leaves the buffer only by being passed to submit_to_active or by
\* a clear-restart: a PlainText that arrives while a submit task is waiting
\* is not discarded when that task clears the buffer.
C2_NothingDiscarded ==
    [][ \A e \in bufIds :
           \/ e.type # "TEXT"
           \/ e \in bufIds'
           \/ e \in dropped'
           \/ \E c \in DOMAIN submitCalls' : e \in submitCalls'[c].ids
      ]_vars

\* C7: a PlainText final transcript only changes the buffer, to its text if
\* the buffer was empty and else to buffer + one space + text; it sends
\* nothing.  Buffer content is sent only by a submit task, and a submit task
\* is only created by an EndOfInput event.
C7_PlainTextOnlyAccumulates ==
    [][ /\ Hears(T_bar, TRUE)
            => /\ text_buffer' = IF text_buffer = <<>> THEN <<"b", "a", "r">>
                                 ELSE text_buffer \o <<" ", "b", "a", "r">>
               /\ UNCHANGED <<tasks, sent, submitCalls, sessions,
                              active_session_id, live, focus, connected>>
        /\ sent' # sent
            => \E i \in 1..MaxTasks :
                  \/ /\ Starts(i, "submit")
                     /\ sent' = Append(sent, [session |-> sent'[Len(sent')].session,
                                              text |-> Strip(text_buffer) \o <<"\r">>])
                  \/ /\ Starts(i, "clear")
                     /\ sent'[Len(sent')].text = ClearSequence
        /\ Len(tasks') > Len(tasks) /\ tasks'[Len(tasks')].kind = "submit"
            => Hears(T_end_voice, TRUE) \/ Hears(T_bar_end_voice, TRUE)
      ]_vars

\* Two PlainText events have been accumulated and nothing has been sent.
C7_Witness ==
    /\ nEvents = 2
    /\ lastEvent = [text |-> T_bar, is_final |-> TRUE]
    /\ text_buffer = <<"b", "a", "r", " ", "b", "a", "r">>
    /\ sent = <<>>

\* C8: a clear-restart task empties the buffer in any case and, when an
\* active session resolves, sends it the three characters Escape, Ctrl+C,
\* Ctrl+U and nothing else; text accumulated before is in no later submit.
C8_ClearRestart ==
    [][ \A i \in 1..MaxTasks :
          /\ Starts(i, "clear")
                => /\ text_buffer' = <<>>
                   /\ bufIds' = {} /\ dropped' = dropped \cup bufIds
                   /\ submitCalls' = submitCalls
                   /\ LET target == get_active_session.session
                      IN  sent' = IF target = NoSession THEN sent
                                  ELSE Append(sent, [session |-> target,
                                                     text |-> <<"\\x1b", "\\x03", "\\x15">>])
          /\ Ends(i, "clear") => UNCHANGED <<text_buffer, sent, submitCalls>>
          /\ \A c \in DOMAIN submitCalls' \ DOMAIN submitCalls :
                submitCalls'[c].ids \cap dropped = {}
      ]_vars

\* Text was accumulated, a clear-restart sent the clear sequence, and the
\* EndOfInput that followed submitted nothing.
C8_Witness ==
    /\ dropped # {}
    /\ lastEvent = [text |-> T_end_voice, is_final |-> TRUE]
    /\ Len(tasks) = 1
    /\ submitCalls = <<>>
    /\ Len(sent) = 1
    /\ sent[1].text = ClearSequence
    /\ text_buffer = <<>>

\* C9: a WindowNavigation command never changes the buffer; when no session
\* is at the position the daemon only shows "No window at ...": it activates
\* nothing and leaves the registry, the flags and the cached id as they are.
C9_WindowNavigation ==
    [][ /\ Hears(T_go_to_left, TRUE) => text_buffer' = text_buffer
        /\ \A i \in 1..MaxTasks :
              /\ Starts(i, "window") \/ Ends(i, "window")
                    => text_buffer' = text_buffer
              /\ Starts(i, "window")
                 /\ get_session_for_position(tasks[i].position) = NoSession
                    => /\ tasks' = Finished(i)
                       /\ status' = IF overlay
                                    THEN [call |-> "update_text",
                                          text |-> <<"No window at ",
                                                     tasks[i].position.vertical, "-",
                                                     tasks[i].position.horizontal>>,
                                          is_final |-> TRUE]
                                    ELSE status
                       /\ UNCHANGED <<sessions, active_session_id, focus, live,
                                      sent, submitCalls>>
      ]_vars

\* A window command found no window while text was in the buffer and a
\* session was cached as active.
C9_Witness ==
    /\ status.call = "update_text"
    /\ status.text[1] = "No window at "
    /\ text_buffer # <<>>
    /\ active_session_id # NoSession
    /\ Len(tasks) = 1

\* C10: an interim transcript is not classified: it only updates the status
\* sink, whatever its text.
C10_InterimOnlyStatus ==
    [][ \A text \in InterimTexts :
          Hears(text, FALSE)
            => /\ status' = IF overlay
                            THEN [call |-> "update_text", text |-> text,
                                  is_final |-> FALSE]
                            ELSE status
               /\ UNCHANGED <<text_buffer, tasks, sessions, active_session_id,
                              live, focus, connected, sent, submitCalls>>
      ]_vars

\* An interim "end voice" was shown while text was in the buffer, and no
\* submit was started.
C10_Witness ==
    /\ lastEvent = [text |-> T_end_voice, is_final |-> FALSE]
    /\ overlay
    /\ status = [call |-> "update_text", text |-> T_end_voice, is_final |-> FALSE]
    /\ text_buffer = <<"b", "a", "r">>
    /\ Len(tasks) = 1
    /\ submitCalls = <<>>

(***************************************************************************)
(* The claims about serialization and failures.                            *)
(***************************************************************************)
\* The tasks that have started a registry operation and wait inside it
InsideRegistry ==
    {i \in DOMAIN tasks : tasks[i].pc \in {"enum", "findtab", "activate", "send"}}

\* C11: registry operations are serialized: no refresh, set_active_session,
\* send_text_to_active, submit_to_active or clear_current_line starts while
\* another one has started and not completed.
C11_Serialized == Cardinality(InsideRegistry) <= 1

\* A backend call of tasks[i] times out in this step
TimesOut(i) ==
    /\ i \in DOMAIN tasks
    /\ tasks[i].pc \in {"activate", "send"}
    /\ tasks' = Finished(i)
    /\ nFaults' = nFaults + 1
    /\ lastFault' = "timeout"

\* C12: a backend call that times out is never signalled as success: after a
\* send that timed out, send_text_to_active, submit_to_active and
\* clear_current_line do not return true, and after an activate that timed
\* out set_active_session has not recorded the session as the active one.
C12_TimeoutIsNotSuccess ==
    [][ \A i \in 1..MaxCalls :
          TimesOut(i)
            => /\ tasks[i].pc = "send" => lastResult'.value # "True"
               /\ tasks[i].pc = "activate"
                    => /\ active_session_id' = active_session_id
                       /\ sessions' = sessions
      ]_vars

\* The methods that send to the active session
SendKinds == {"send_text", "submit_to", "clear_line"}

\* What a method called with this text has to send
Expected(kind, text) ==
    CASE kind = "send_text" -> text
      [] kind = "submit_to" -> text \o <<"\r">>
      [] kind = "clear_line" -> <<"\\x1b", "\\x03", "\\x15">>

\* tasks[i] starts one of the sending methods: without an active session it
\* returns false and sends nothing, with one it sends to that session only.
SendsToActiveOnly(i) ==
    \A kind \in SendKinds :
        Starts(i, kind)
          => LET target == get_active_session.session
             IN  IF target = NoSession
                 THEN /\ sent' = sent
                      /\ tasks' = Finished(i)
                      /\ lastResult'.op = kind
                      /\ lastResult'.value = "False"
                 ELSE /\ sent' = Append(sent, [session |-> target,
                                               text |-> Expected(kind, tasks[i].text)])
                      /\ tasks'[i].pc = "send"
                      /\ lastResult' = lastResult

\* tasks[i] is one of the sending methods and its backend send ends
SendEnds(i) == \E kind \in SendKinds : Ends(i, kind)

\* The backend send that tasks[i] waits for raises in this step
SendRaises(i) ==
    \/ nFaults' = nFaults + 1 /\ lastFault' = "error"
    \/ nFaults' = nFaults /\ tasks[i].session \notin live

\* C13 as stated: send_text_to_active, submit_to_active and
\* clear_current_line return false without a backend send when no active
\* session resolves; when one resolves they send to exactly that session
\* (submit_to_active: the text and one carriage return) and return true.
C13_SendsAndReturnsTrue ==
    [][ \A i \in 1..MaxCalls :
          /\ SendsToActiveOnly(i)
          /\ SendEnds(i) => sent' = sent /\ lastResult'.value = "True"
      ]_vars

\* C13, amended: as stated, but they return true unless the backend send
\* raises an error other than a timeout; that error propagates to the caller.
C13_SendsAndReturnsTrueUnlessRaised ==
    [][ \A i \in 1..MaxCalls :
          /\ SendsToActiveOnly(i)
          /\ SendEnds(i)
                => /\ sent' = sent
                   /\ lastResult'.op = tasks[i].kind
                   /\ IF SendRaises(i) THEN lastResult'.value = "raised"
                      ELSE lastResult'.value = "True"
      ]_vars

\* submit_to_active has sent the text and a carriage return to the focused
\* session and has returned true.
C13_Witness ==
    /\ lastResult.op = "submit_to"
    /\ lastResult.value = "True"
    /\ Len(sent) = 1
    /\ sent[1] = [session |-> focus, text |-> <<"f", "o", "o", "\r">>]
    /\ focus \in DOMAIN sessions

\* The registered sessions whose is_active flag is set
Flagged(map) == {id \in DOMAIN map : map[id].is_active}

\* The set_active_session that tasks[i] called ends in this step
SetActiveEnds(i) ==
    /\ i \in DOMAIN tasks
    /\ tasks[i].pc = "activate"
    /\ tasks' = Finished(i)

\* C14: when set_active_session(s) completes, s alone has is_active if s is
\* registered and no session has it if s is unknown; is_active changes only
\* inside set_active_session; in every reachable state at most one registered
\* session has is_active.
C14_ActiveFlag ==
    /\ [](Cardinality(Flagged(sessions)) <= 1)
    /\ [][ /\ \A i \in 1..MaxCalls :
                Ends(i, "set_active") /\ lastResult'.value = "returned"
                  => Flagged(sessions') = {tasks[i].session} \cap DOMAIN sessions'
           /\ \A id \in DOMAIN sessions \cap DOMAIN sessions' :
                sessions'[id].is_active # sessions[id].is_active
                  => \E i \in 1..MaxCalls : SetActiveEnds(i)
         ]_vars

\* The periodic refresh task of the daemon
PeriodicTasks(ts) == {j \in DOMAIN ts : ts[j].kind = "periodic"}

\* C15: no backend failure during the handling of a command (window,
\* clear/restart, submit) or during a periodic refresh leaves its handler:
\* whatever a step does, a daemon that is Listening stays Listening and
\* connected, its periodic refresh task goes on existing, and the handlers
\* still under way are the ones there were, or one less when one has ended.
C15_FailuresContained ==
    [][ daemon = "listening" =>
          /\ daemon' = "listening"
          /\ connected' = connected
          /\ Cardinality(PeriodicTasks(tasks')) = 1
          /\ Len(tasks') >= Len(tasks) - 1
      ]_vars

\* A command handler met a backend error (no tick has happened, so it was
\* not the periodic refresh), every handler has ended, and the daemon is
\* Listening with its periodic task asleep
C15_Witness ==
    /\ lastFault = "error"
    /\ nTicks = 0
    /\ daemon = "listening"
    /\ Len(tasks) = 1
    /\ tasks[1].kind = "periodic"
    /\ tasks[1].pc = "sleep"

(***************************************************************************)
(* command_parser.py on its own: CommandParser.parse applied to one text.  *)
(* The texts are sentences of up to six parts (a lead, a verb, the         *)
(* article, position words, a noun, a trail), each part possibly absent,   *)
(* joined by single spaces and padded with whitespace.                     *)
(***************************************************************************)
MaxPad == 1

Leads ==
    {<<>>,
     <<"d","e","p","l","o","y"," ","t","h","e"," ","s","e","r","v","i","c","e">>,
     <<"N","e","v","e","r"," ","M","i","n","d">>,
     <<"e","n","d"," ","v","o","i","c","e">>,
     <<"s","o">>}
Verbs ==
    {<<>>,
     <<"a","c","t","i","v","a","t","e">>,
     <<"g","o"," ","t","o">>,
     <<"s","w","i","t","c","h"," ","t","o">>,
     <<"S","w","i","t","c","h"," ","T","o">>}
Articles ==
    {<<>>,
     <<"t","h","e">>}
PositionWords ==
    {<<>>,
     <<"l","e","f","t">>,
     <<"u","p","p","e","r"," ","l","e","f","t">>,
     <<"T","o","p">>,
     <<"m","i","d","d","l","e">>,
     <<"k","i","t","c","h","e","n">>,
     <<"b","o","t","t","o","m"," ","r","i","g","h","t"," ","c","o","r","n","e","r">>,
     <<"u","p","p","e","r"," ","m","i","d","d","l","e">>}
Nouns ==
    {<<>>,
     <<"w","i","n","d","o","w">>,
     <<"p","a","n","e">>}
Trails ==
    {<<>>,
     <<"p","l","e","a","s","e">>,
     <<"e","n","d"," ","v","o","i","c","e">>,
     <<"E","n","d"," ","V","o","i","c","e">>,
     <<"s","t","a","r","t"," ","o","v","e","r">>,
     <<"e","n","d"," ","v","o","i","c","e"," ","e","n","d"," ","v","o","i","c","e">>}

\* " ".join of the parts that are present
RECURSIVE JoinWords(_)
JoinWords(parts) ==
    IF parts = <<>> THEN <<>>
    ELSE LET rest == JoinWords(Tail(parts))
         IN  IF Head(parts) = <<>> THEN rest
             ELSE IF rest = <<>> THEN Head(parts)
             ELSE Head(parts) \o <<" ">> \o rest

\* n characters of whitespace
Spaces(n) == [k \in 1..n |-> " "]

\* The texts handed to parse
ParserTexts ==
    {Spaces(n) \o JoinWords(<<l, v, a, w, o, t>>) \o Spaces(n) :
        n \in 0..MaxPad, l \in Leads, v \in Verbs, a \in Articles,
        w \in PositionWords, o \in Nouns, t \in Trails}

InitParser ==
    /\ parse_text \in ParserTexts
    /\ parse_result = NoParse
    /\ live = {}
    /\ focus = NoSession
    /\ connected = FALSE
    /\ sessions = <<>>
    /\ active_session_id = NoSession
    /\ text_buffer = <<>>
    /\ overlay = FALSE
    /\ status = NoStatus
    /\ daemon = "parser"
    /\ tasks = <<>>
    /\ sent = <<>>
    /\ submitCalls = <<>>
    /\ bufIds = {}
    /\ dropped = {}
    /\ lastEvent = [text |-> <<>>, is_final |-> FALSE]
    /\ nEvents = 0
    /\ nChurn = 0
    /\ nFaults = 0
    /\ nTicks = 0
    /\ nCalls = 0
    /\ lastResult = NoResult
    /\ lastFault = "none"
    /\ NoLayout
    /\ NotStopping

\* result = parser.parse(text)
ParseText ==
    /\ daemon = "parser"
    /\ parse_result = NoParse
    /\ parse_result' = parse(parse_text)
    /\ UNCHANGED <<live, focus, connected, sessions, active_session_id,
                   text_buffer, overlay, status, daemon, tasks, sent,
                   submitCalls, bufIds, dropped, lastEvent, nEvents, nChurn,
                   nFaults, nTicks, nCalls, lastFault, parse_text, lastResult,
                   layout_root, layout_positions, find_target, find_result,
                   shutdown_event, released>>

NextParser == ParseText

SpecParser == InitParser /\ [][NextParser]_vars

(***************************************************************************)
(* The claims about CommandParser.parse, under SpecParser.                 *)
(***************************************************************************)
\* parse has returned
ParseDone == parse_result # NoParse

\* what parse works on: the text stripped, and its lower case
Stripped == Strip(parse_text)
Lowered == Lower(Stripped)

\* a phrase of the list occurs in the text, whatever the case
HasPhrase(phrases) == \E k \in DOMAIN phrases : Contains(Lowered, phrases[k])

\* the navigation pattern matches the text and resolves to a position
Navigates == parse_window_command(Stripped) # NoPosition

\* C16: parse returns exactly one of the four variants for every text, by a
\* fixed priority over case-insensitive substring containment: ClearRestart
\* exactly when a clear/restart phrase occurs (also when an end phrase or a
\* navigation command occurs too); otherwise EndOfInput exactly when an end
\* phrase occurs (also when a navigation command matches); otherwise
\* WindowNavigation exactly when a navigation command matches; otherwise
\* PlainText.
C16_FixedPriority ==
    ParseDone =>
        LET clear == HasPhrase(clear_restart_phrases)
            end == HasPhrase(end_voice_phrases)
        IN  /\ parse_result.type \in {"CLEAR_RESTART", "END_VOICE",
                                      "WINDOW_COMMAND", "TEXT"}
            /\ parse_result.type = "CLEAR_RESTART" <=> clear
            /\ parse_result.type = "END_VOICE" <=> ~clear /\ end
            /\ parse_result.type = "WINDOW_COMMAND" <=> ~clear /\ ~end /\ Navigates
            /\ parse_result.type = "TEXT" <=> ~clear /\ ~end /\ ~Navigates

\* A text with a clear/restart phrase not in lower case, an end phrase and a
\* navigation command was parsed
C16_Witness ==
    /\ ParseDone
    /\ HasPhrase(clear_restart_phrases)
    /\ ~(\E k \in DOMAIN clear_restart_phrases :
            Contains(Stripped, clear_restart_phrases[k]))
    /\ HasPhrase(end_voice_phrases)
    /\ Navigates
    /\ parse_result.type = "CLEAR_RESTART"

\* the 1-based indices at which an end phrase occurs in the text, whatever
\* the case
EndPhraseAt ==
    {i \in 1..Len(Stripped) :
        \E k \in DOMAIN end_voice_phrases : MatchAt(Lowered, end_voice_phrases[k], i)}

\* the text before the first occurrence of the end phrase, in its own case
BeforeEndPhrase == SubSeq(Stripped, 1, Min(EndPhraseAt) - 1)

\* p is s without the whitespace at its two ends, and is not empty
IsTrimOf(p, s) ==
    LET inked == {k \in 1..Len(s) : s[k] \notin WS}
    IN  /\ inked # {}
        /\ \E i, j \in inked :
              /\ \A k \in inked : i <= k /\ k <= j
              /\ p = SubSeq(s, i, j)

\* C17: the prefix of an EndOfInput is the text that precedes the first
\* occurrence of the end phrase, in its original case and trimmed, and is
\* None when only whitespace (or nothing) precedes it; parse("end voice") is
\* EndOfInput(None) and parse("deploy the service end voice") is
\* EndOfInput("deploy the service").
C17_EndOfInputPrefix ==
    ParseDone =>
        /\ parse_result.type = "END_VOICE" =>
                /\ parse_result.position = NoPosition
                /\ IF \A k \in 1..Len(BeforeEndPhrase) : BeforeEndPhrase[k] \in WS
                   THEN parse_result.text = NoText
                   ELSE /\ parse_result.text # NoText
                        /\ IsTrimOf(parse_result.text[1], BeforeEndPhrase)
        /\ parse_text = T_end_voice =>
                parse_result = ParseResult("END_VOICE", NoPosition, NoText)
        /\ parse_text = T_deploy_end_voice =>
                parse_result = ParseResult("END_VOICE", NoPosition,
                                           SomeText(T_deploy_the_service))

\* An EndOfInput whose text holds the end phrase twice and whose prefix is
\* not all in lower case
C17_Witness ==
    /\ ParseDone
    /\ parse_result.type = "END_VOICE"
    /\ Cardinality(EndPhraseAt) = 2
    /\ parse_result.text # NoText
    /\ Lower(parse_result.text[1]) # parse_result.text[1]

\* every word of the phrase is in the horizontal or the vertical table,
\* whatever its case, and there is at least one
IsPositionPhrase(w) ==
    LET words == Split(Lower(w))
    IN  /\ w # <<>>
        /\ \A k \in 1..Len(words) :
              words[k] \in DOMAIN HORIZONTAL_WORDS \cup DOMAIN VERTICAL_WORDS

\* the text is verb [the] w [noun], padded or not
IsNavigationOf(text, w) ==
    \E n \in 0..MaxPad, v \in Verbs \ {<<>>}, a \in Articles, o \in Nouns :
        text = Spaces(n) \o JoinWords(<<v, a, w, o>>) \o Spaces(n)

\* C18: a text of the form (activate | go to | switch to) [the] <position
\* words> [window | pane], in any case, is a WindowNavigation whose position
\* is the one the position words resolve to; "activate the upper left
\* window" gives vertical Upper, horizontal Left.
C18_NavigationForm ==
    ParseDone =>
        /\ \A w \in PositionWords :
              IsPositionPhrase(w) /\ IsNavigationOf(parse_text, w) =>
                  /\ parse_result.type = "WINDOW_COMMAND"
                  /\ parse_result.position # NoPosition
                  /\ parse_result.position = parse_position(Lower(w))
                  /\ parse_result.text = NoText
        /\ parse_text = T_activate_the_upper_left_window =>
              parse_result = ParseResult("WINDOW_COMMAND",
                                         WindowPosition("left", "upper"), NoText)

\* A navigation command with the article, a position word not in lower case
\* and the noun was parsed
C18_Witness ==
    /\ ParseDone
    /\ \E w \in PositionWords, v \in Verbs \ {<<>>}, o \in Nouns \ {<<>>} :
          /\ IsPositionPhrase(w)
          /\ Lower(w) # w
          /\ parse_text = JoinWords(<<v, PatternArticle, w, o>>)
    /\ parse_result.type = "WINDOW_COMMAND"

\* the words the navigation pattern captured in the text, in lower case
\* (none when the pattern does not match)
CapturedWords ==
    LET m == PatternSearch(Stripped)
    IN  IF m = <<>> THEN <<>> ELSE Split(Lower(m[1]))

\* the pattern matches and none of the captured words is a position word
NavigatesNowhere ==
    LET words == CapturedWords
    IN  /\ PatternSearch(Stripped) # <<>>
        /\ \A k \in 1..Len(words) :
              words[k] \notin DOMAIN HORIZONTAL_WORDS \cup DOMAIN VERTICAL_WORDS

HasWordsAfterNoun(text) ==
    \E n \in 0..MaxPad, v \in Verbs \ {<<>>}, a \in Articles,
       w \in PositionWords \ {<<>>}, o \in Nouns \ {<<>>} :
        text = Spaces(n) \o JoinWords(<<v, a, w, o, T_please>>) \o Spaces(n)

\* C20: the navigation pattern wants the position phrase at the end of the
\* utterance: a text with further words after the trailing noun, such as
\* "switch to the left pane please", is not matched by the pattern and is
\* not classified WindowNavigation.
C20_TrailingWordsDoNotNavigate ==
    ParseDone /\ HasWordsAfterNoun(parse_text) =>
        /\ PatternSearch(Stripped) = <<>>
        /\ parse_result.type # "WINDOW_COMMAND"

\* the value the last of the words found in the table gives, or the default
LastIn(words, table, default) ==
    LET hits == {k \in 1..Len(words) : words[k] \in DOMAIN table}
    IN  IF hits = {} THEN default ELSE table[words[Max(hits)]]

\* C21: over the whitespace-separated tokens of the captured span, every
\* token of the horizontal table sets the horizontal axis and every token
\* of the vertical table sets the vertical axis ('middle' and 'center' are
\* in both); on each axis the last token of that axis' table decides, and
\* an axis no token set is Center (horizontal) or Middle (vertical).
C21_LastWordPerAxis ==
    ParseDone /\ parse_result.type = "WINDOW_COMMAND" =>
        LET words == CapturedWords
        IN  /\ parse_result.position.horizontal =
                  LastIn(words, HORIZONTAL_WORDS, "center")
            /\ parse_result.position.vertical =
                  LastIn(words, VERTICAL_WORDS, "middle")

(***************************************************************************)
(* position_detector.py on its own: compute_positions applied to a split   *)
(* tree, then find_session_by_position applied to the list it returned.    *)
(* The trees are all the trees of at most MaxNodes nodes, a node being a   *)
(* session or a splitter of either axis with any number of children (none  *)
(* included); the sessions are numbered from left to right.                *)
(***************************************************************************)
MaxNodes == 6

PaneIds == <<"p1", "p2", "p3", "p4", "p5", "p6", "p7", "p8">>

\* The trees of exactly n nodes, their sessions not yet numbered, and the
\* sequences of trees of m nodes in all
RECURSIVE TreesOfSize(_), ForestsOfSize(_)
TreesOfSize(n) ==
    (IF n = 1 THEN {SessionNode("?")} ELSE {})
    \cup {SplitterNode(v, cs) : v \in BOOLEAN, cs \in ForestsOfSize(n - 1)}

ForestsOfSize(m) ==
    IF m = 0 THEN {<<>>}
    ELSE UNION {{<<t>> \o f : t \in TreesOfSize(j), f \in ForestsOfSize(m - j)} :
                  j \in 1..m}

\* Numbering the sessions of a tree from the k-th id on: the tree and the
\* next free number
RECURSIVE Numbered(_, _), NumberedAll(_, _)
Numbered(node, k) ==
    IF node.kind = "session"
    THEN [node |-> SessionNode(PaneIds[k]), next |-> k + 1]
    ELSE LET r == NumberedAll(node.children, k)
         IN  [node |-> SplitterNode(node.vertical, r.nodes), next |-> r.next]

NumberedAll(children, k) ==
    IF children = <<>> THEN [nodes |-> <<>>, next |-> k]
    ELSE LET first == Numbered(Head(children), k)
             rest == NumberedAll(Tail(children), first.next)
         IN  [nodes |-> <<first.node>> \o rest.nodes, next |-> rest.next]

\* The values of tab.root
Trees ==
    {Numbered(t, 1).node : t \in UNION {TreesOfSize(n) : n \in 1..MaxNodes}}

\* The targets a window command can name
AllWindowPositions ==
    {WindowPosition(h, v) : h \in {"left", "center", "right"},
                            v \in {"upper", "middle", "lower"}}

InitLayout ==
    /\ layout_root \in Trees
    /\ layout_positions = NotComputed
    /\ find_target = NoPosition
    /\ find_result = Pending
    /\ parse_text = <<>>
    /\ parse_result = NoParse
    /\ live = {}
    /\ focus = NoSession
    /\ connected = FALSE
    /\ sessions = <<>>
    /\ active_session_id = NoSession
    /\ text_buffer = <<>>
    /\ overlay = FALSE
    /\ status = NoStatus
    /\ daemon = "layout"
    /\ tasks = <<>>
    /\ sent = <<>>
    /\ submitCalls = <<>>
    /\ bufIds = {}
    /\ dropped = {}
    /\ lastEvent = [text |-> <<>>, is_final |-> FALSE]
    /\ nEvents = 0
    /\ nChurn = 0
    /\ nFaults = 0
    /\ nTicks = 0
    /\ nCalls = 0
    /\ lastResult = NoResult
    /\ lastFault = "none"
    /\ NotStopping

\* positions = detector.compute_positions(tab.root)
ComputePositions ==
    /\ daemon = "layout"
    /\ layout_root # NoRoot
    /\ layout_positions = NotComputed
    /\ layout_positions' = compute_positions(layout_root)
    /\ UNCHANGED <<live, focus, connected, sessions, active_session_id,
                   text_buffer, overlay, status, daemon, tasks, sent,
                   submitCalls, bufIds, dropped, lastEvent, nEvents, nChurn,
                   nFaults, nTicks, nCalls, lastFault, parse_text, parse_result,
                   lastResult, layout_root, find_target, find_result,
                   shutdown_event, released>>

\* session = detector.find_session_by_position(positions, target)
FindSession ==
    /\ daemon = "layout"
    /\ layout_positions # NotComputed
    /\ find_result = Pending
    /\ \E t \in AllWindowPositions :
          /\ find_target' = t
          /\ find_result' = find_session_by_position(layout_positions, t)
    /\ UNCHANGED <<live, focus, connected, sessions, active_session_id,
                   text_buffer, overlay, status, daemon, tasks, sent,
                   submitCalls, bufIds, dropped, lastEvent, nEvents, nChurn,
                   nFaults, nTicks, nCalls, lastFault, parse_text, parse_result,
                   lastResult, layout_root, layout_positions,
                   shutdown_event, released>>

NextLayout == ComputePositions \/ FindSession

SpecLayout == InitLayout /\ [][NextLayout]_vars

(***************************************************************************)
(* The claims about the layout resolver, under SpecLayout.                 *)
(***************************************************************************)
\* compute_positions has returned
Computed == layout_positions # NotComputed

\* the ids of the sessions of a tree, from left to right
RECURSIVE Leaves(_), LeavesOfAll(_)
Leaves(node) ==
    IF node.kind = "session" THEN <<node.id>> ELSE LeavesOfAll(node.children)

LeavesOfAll(children) ==
    IF children = <<>> THEN <<>>
    ELSE Leaves(Head(children)) \o LeavesOfAll(Tail(children))

\* the nodes of a tree, itself included
RECURSIVE Nodes(_)
Nodes(node) ==
    {node} \cup (IF node.kind = "session" THEN {}
                 ELSE UNION {Nodes(node.children[c]) : c \in DOMAIN node.children})

\* every split of the tree has at least one child
WellFormed(node) ==
    \A n \in Nodes(node) : n.kind = "splitter" => n.children # <<>>

\* the depth of a tree: 0 for a session
RECURSIVE Depth(_)
Depth(node) ==
    IF node.kind = "session" \/ node.children = <<>> THEN 0
    ELSE 1 + Max({Depth(node.children[c]) : c \in DOMAIN node.children})

\* the elements of a sequence
Range(seq) == {seq[i] : i \in DOMAIN seq}

\* C22: for every split tree whose splits all have at least one child and
\* whose leaves have distinct ids, compute_positions returns exactly one
\* SessionPosition per leaf: the ids returned are the ids of the leaves, none
\* comes twice, and no two entries have the same (row, col).
C22_OneEntryPerLeaf ==
    Computed /\ WellFormed(layout_root) =>
        /\ {layout_positions[i].session : i \in DOMAIN layout_positions}
              = Range(Leaves(layout_root))
        /\ \A i, j \in DOMAIN layout_positions :
              i # j =>
                 /\ layout_positions[i].session # layout_positions[j].session
                 /\ <<layout_positions[i].row, layout_positions[i].col>>
                       # <<layout_positions[j].row, layout_positions[j].col>>

\* The positions of a tree of depth 3 with splits of both axes and at least
\* three leaves were computed
C22_Witness ==
    /\ Computed
    /\ WellFormed(layout_root)
    /\ Depth(layout_root) = 3
    /\ \E m, n \in Nodes(layout_root) :
          m.kind = "splitter" /\ n.kind = "splitter" /\ m.vertical /\ ~n.vertical
    /\ Len(layout_positions) >= 3

\* C23: a tree whose root is a single unsplit leaf resolves to exactly one
\* SessionPosition, with horizontal Center, vertical Middle, row 0, col 0.
C23_LoneLeafIsCenterMiddle ==
    Computed /\ layout_root.kind = "session" =>
        layout_positions =
            <<SessionPosition(layout_root.id, "center", "middle", 0, 0)>>

\* The positions of a tree that is one session were computed
C23_Witness ==
    /\ Computed
    /\ layout_root.kind = "session"
    /\ Len(layout_positions) = 1

\* the tree is a split whose n >= 2 children are all sessions
IsFlat(node) ==
    /\ node.kind = "splitter"
    /\ Len(node.children) >= 2
    /\ \A c \in DOMAIN node.children : node.children[c].kind = "session"

\* the entry of the list for a session
EntryOf(list, id) == list[CHOOSE i \in DOMAIN list : list[i].session = id]

\* Left for the first of n, Right for the last, Center between (and Upper,
\* Lower, Middle)
Edge(k, n, first, last, between) ==
    IF k = 1 THEN first ELSE IF k = n THEN last ELSE between

\* C24: a flat horizontal split of N >= 2 leaves gives every leaf vertical
\* Middle, and horizontal Left for the first, Right for the last, Center for
\* the others; a flat vertical split of N >= 2 leaves gives every leaf
\* horizontal Center, and vertical Upper for the first, Lower for the last,
\* Middle for the others.
C24_FlatSplits ==
    Computed /\ IsFlat(layout_root) =>
        LET children == layout_root.children
            n == Len(children)
        IN  /\ Len(layout_positions) = n
            /\ \A k \in 1..n :
                 LET e == EntryOf(layout_positions, children[k].id)
                 IN  IF layout_root.vertical
                     THEN /\ e.vertical = "middle"
                          /\ e.horizontal = Edge(k, n, "left", "right", "center")
                     ELSE /\ e.horizontal = "center"
                          /\ e.vertical = Edge(k, n, "upper", "lower", "middle")

\* The positions of a flat split of at least three sessions, stacked from
\* top to bottom, were computed
C24_Witness ==
    /\ Computed
    /\ IsFlat(layout_root)
    /\ ~layout_root.vertical
    /\ Len(layout_root.children) >= 3
    /\ Len(layout_positions) >= 3

\* the grid of a child of a split, as _build_grid collects it
ChildGrid(child) ==
    IF child.kind = "session" THEN << <<child.id>> >> ELSE build_grid(child)

\* the numbers of rows and of columns of a grid that is not empty
NumRows(grid) == Len(grid)
NumCols(grid) == Len(grid[1])

\* the sum of f over 1..n
RECURSIVE SumTo(_, _)
SumTo(f, n) == IF n = 0 THEN 0 ELSE f[n] + SumTo(f, n - 1)

\* the cells of a grid that hold a session
Filled(grid) ==
    {<<r, c>> \in (1..Len(grid)) \X (1..MaxNodes) :
        c <= Len(grid[r]) /\ grid[r][c] # NoSession}

\* C25: the grid assembled for any split node (of a tree whose splits all
\* have a child) is rectangular; for a horizontal split its column count is
\* the sum of its children's column counts and its row count the maximum of
\* their row counts; for a vertical split its row count is the sum of their
\* row counts and its column count the maximum of their column counts; the
\* cells that make up the difference are empty.
C25_GridsAreRectangular ==
    Computed /\ WellFormed(layout_root) =>
        \A n \in {m \in Nodes(layout_root) : m.kind = "splitter"} :
            LET grid == build_grid(n)
                kids == [c \in DOMAIN n.children |-> ChildGrid(n.children[c])]
                rows == [c \in DOMAIN kids |-> NumRows(kids[c])]
                cols == [c \in DOMAIN kids |-> NumCols(kids[c])]
            IN  /\ \A r \in DOMAIN grid : Len(grid[r]) = NumCols(grid)
                /\ IF n.vertical
                   THEN /\ NumCols(grid) = SumTo(cols, Len(kids))
                        /\ NumRows(grid) = Max(Range(rows))
                   ELSE /\ NumRows(grid) = SumTo(rows, Len(kids))
                        /\ NumCols(grid) = Max(Range(cols))
                /\ Cardinality(Filled(grid)) = Len(Leaves(n))
                /\ {grid[rc[1]][rc[2]] : rc \in Filled(grid)} = Range(Leaves(n))

\* The positions of a tree were computed in which the grid of a split has
\* empty cells, its children being of unequal size
C25_Witness ==
    /\ Computed
    /\ WellFormed(layout_root)
    /\ \E n \in Nodes(layout_root) :
          /\ n.kind = "splitter"
          /\ \E r \in DOMAIN build_grid(n) :
                NoSession \in Range(build_grid(n)[r])

\* the grid of the root of a tree
RootGrid(node) == ChildGrid(node)

\* C26: every SessionPosition returned is classified from its own (row,
\* col) and the dimensions of the root grid: horizontal is Center if the
\* grid has one column, else Left if col = 0, Right if col is the last
\* column, Center otherwise; vertical is Middle if the grid has one row, else
\* Upper if row = 0, Lower if row is the last row, Middle otherwise.
C26_ClassifiedByCell ==
    Computed =>
        \A i \in DOMAIN layout_positions :
            LET e == layout_positions[i]
                grid == RootGrid(layout_root)
                last_row == NumRows(grid) - 1
                last_col == NumCols(grid) - 1
            IN  /\ e.row \in 0..last_row
                /\ e.col \in 0..last_col
                /\ grid[e.row + 1][e.col + 1] = e.session
                /\ e.horizontal = IF last_col = 0 THEN "center"
                                  ELSE IF e.col = 0 THEN "left"
                                  ELSE IF e.col = last_col THEN "right"
                                  ELSE "center"
                /\ e.vertical = IF last_row = 0 THEN "middle"
                                ELSE IF e.row = 0 THEN "upper"
                                ELSE IF e.row = last_row THEN "lower"
                                ELSE "middle"

\* The positions of a grid of at least three rows and two columns were
\* computed, and an entry lies in a middle row of the last column
C26_Witness ==
    /\ Computed
    /\ NumRows(RootGrid(layout_root)) >= 3
    /\ NumCols(RootGrid(layout_root)) >= 2
    /\ \E i \in DOMAIN layout_positions :
          /\ layout_positions[i].vertical = "middle"
          /\ layout_positions[i].horizontal = "right"

\* The horizontal split of [leaf A, vertical split of the leaves B and C]
AsymmetricTree ==
    SplitterNode(TRUE, <<SessionNode("p1"),
                         SplitterNode(FALSE, <<SessionNode("p2"),
                                               SessionNode("p3")>>)>>)

\* A once, B once, C once
HasEachOnce(list) ==
    /\ Len(list) = 3
    /\ {list[i].session : i \in DOMAIN list} = {"p1", "p2", "p3"}

\* C27 as the spec has it: for the horizontal split of [leaf A, vertical
\* split of B and C] the grid has 2 rows and 2 columns with A in column 0 at
\* both rows, and the output holds A exactly once, and B and C once each.
C27_LeafSpansBothRows ==
    Computed /\ layout_root = AsymmetricTree =>
        /\ build_grid(layout_root) = << <<"p1", "p2">>, <<"p1", "p3">> >>
        /\ HasEachOnce(layout_positions)

\* C27 as the code has it: for the horizontal split of [leaf A, vertical
\* split of B and C] the grid has 2 rows and 2 columns with A in column 0 at
\* row 0 only, the cell under it being empty; the output holds A exactly
\* once, classified from row 0, column 0, and B and C once each.
C27_LeafOnceAboveEmptyCell ==
    Computed /\ layout_root = AsymmetricTree =>
        /\ build_grid(layout_root) = << <<"p1", "p2">>, <<NoSession, "p3">> >>
        /\ HasEachOnce(layout_positions)
        /\ EntryOf(layout_positions, "p1")
              = SessionPosition("p1", "left", "upper", 0, 0)

\* The positions of that tree were computed
C27_Witness ==
    /\ Computed
    /\ layout_root = AsymmetricTree
    /\ Len(layout_positions) = 3

(***************************************************************************)
(* position_detector.py: find_session_by_position applied to a given list  *)
(* of at most MaxEntries entries of any classes, in any order.             *)
(***************************************************************************)
MaxEntries == 3

\* The lists of SessionPosition of n entries
RECURSIVE ListsOfLength(_)
ListsOfLength(n) ==
    IF n = 0 THEN {<<>>}
    ELSE {list \o <<SessionPosition(PaneIds[n], t.horizontal, t.vertical, 0, n - 1)>> :
            list \in ListsOfLength(n - 1), t \in AllWindowPositions}

PositionLists == UNION {ListsOfLength(n) : n \in 0..MaxEntries}

InitFinder ==
    /\ layout_root = NoRoot
    /\ layout_positions \in PositionLists
    /\ find_target = NoPosition
    /\ find_result = Pending
    /\ parse_text = <<>>
    /\ parse_result = NoParse
    /\ live = {}
    /\ focus = NoSession
    /\ connected = FALSE
    /\ sessions = <<>>
    /\ active_session_id = NoSession
    /\ text_buffer = <<>>
    /\ overlay = FALSE
    /\ status = NoStatus
    /\ daemon = "layout"
    /\ tasks = <<>>
    /\ sent = <<>>
    /\ submitCalls = <<>>
    /\ bufIds = {}
    /\ dropped = {}
    /\ lastEvent = [text |-> <<>>, is_final |-> FALSE]
    /\ nEvents = 0
    /\ nChurn = 0
    /\ nFaults = 0
    /\ nTicks = 0
    /\ nCalls = 0
    /\ lastResult = NoResult
    /\ lastFault = "none"
    /\ NotStopping

NextFinder == FindSession

SpecFinder == InitFinder /\ [][NextFinder]_vars

(***************************************************************************)
(* The claims about find_session_by_position, under SpecFinder.            *)
(***************************************************************************)
\* find_session_by_position has returned
Found == find_result # Pending

\* the entries of the list that agree with the target on both axes, on the
\* horizontal axis, on the vertical axis
ExactMatches ==
    {i \in DOMAIN layout_positions :
        /\ layout_positions[i].horizontal = find_target.horizontal
        /\ layout_positions[i].vertical = find_target.vertical}
HorizontalMatches ==
    {i \in DOMAIN layout_positions :
        layout_positions[i].horizontal = find_target.horizontal}
VerticalMatches ==
    {i \in DOMAIN layout_positions :
        layout_positions[i].vertical = find_target.vertical}

\* the session of the first of the entries
FirstOf(matches) == layout_positions[Min(matches)].session

\* The list [(Left, Upper), (Right, Upper)]
LeftUpperRightUpper ==
    <<SessionPosition("p1", "left", "upper", 0, 0),
      SessionPosition("p2", "right", "upper", 0, 1)>>

\* C28: find_session_by_position returns, in this order, the first entry
\* whose horizontal and vertical both equal the target's; else, if the
\* target's vertical is Middle, the first entry whose horizontal equals the
\* target's; else, if the target's horizontal is Center, the first entry
\* whose vertical equals the target's; else no session.  The target (Left,
\* Middle) against [(Left, Upper), (Right, Upper)] gives the (Left, Upper)
\* entry.
C28_MatchOrder ==
    Found =>
        /\ find_result =
              IF ExactMatches # {} THEN FirstOf(ExactMatches)
              ELSE IF find_target.vertical = "middle" /\ HorizontalMatches # {}
              THEN FirstOf(HorizontalMatches)
              ELSE IF find_target.horizontal = "center" /\ VerticalMatches # {}
              THEN FirstOf(VerticalMatches)
              ELSE NoSession
        /\ layout_positions = LeftUpperRightUpper
              /\ find_target = WindowPosition("left", "middle")
              => find_result = "p1"

\* (Left, Middle) was looked for in [(Left, Upper), (Right, Upper)]
C28_Witness ==
    /\ Found
    /\ layout_positions = LeftUpperRightUpper
    /\ find_target = WindowPosition("left", "middle")
    /\ find_result # NoSession

\* C29: for a fully specified target (horizontal Left or Right, vertical
\* Upper or Lower) find_session_by_position returns a session only if some
\* entry has exactly that horizontal and vertical class, and no session
\* otherwise: never a partial match.
C29_FullTargetNeedsExactCell ==
    /\ Found
    /\ find_target.horizontal \in {"left", "right"}
    /\ find_target.vertical \in {"upper", "lower"}
    => IF ExactMatches = {} THEN find_result = NoSession
       ELSE \E i \in ExactMatches : layout_positions[i].session = find_result

\* A fully specified target was looked for in a list that has entries of its
\* column and entries of its row but none at its cell, and nothing was found
C29_Witness ==
    /\ Found
    /\ find_target.horizontal \in {"left", "right"}
    /\ find_target.vertical \in {"upper", "lower"}
    /\ ExactMatches = {}
    /\ HorizontalMatches # {}
    /\ VerticalMatches # {}
    /\ find_result = NoSession

(***************************************************************************)
(* The claim about malformed trees, under SpecLayout.                      *)
(***************************************************************************)
\* The tree with its splits without children removed (and the splits this
\* leaves without children, up to the root, which stays)
RECURSIVE Pruned(_)
Pruned(node) ==
    IF node.kind = "session" THEN node
    ELSE LET kids == [c \in DOMAIN node.children |-> Pruned(node.children[c])]
         IN  SplitterNode(node.vertical,
                          SelectSeq(kids, LAMBDA n : n.kind = "session"
                                                     \/ n.children # <<>>))

\* C30: a split node with no children, at the root or nested anywhere, is
\* an empty sub-grid: compute_positions returns, and the empty split adds no
\* row and no column, so that every leaf has the row, col and classes it has
\* in the tree with the empty split removed.
C30_EmptySplitAddsNothing ==
    Computed /\ ~WellFormed(layout_root) =>
        layout_positions = grid_to_positions(build_grid(Pruned(layout_root)))

(***************************************************************************)
(* The daemon's view of its targets: claims C31 to C40.                    *)
(***************************************************************************)
\* The submit_to_active that tasks[i] of _submit_text waits for returns true
\* in this step
SubmitSucceeds(i) ==
    /\ i \in DOMAIN tasks
    /\ tasks[i].kind = "submit"
    /\ tasks[i].pc = "send"
    /\ tasks[i].session \in live
    /\ nFaults' = nFaults
    /\ \/ tasks' = Finished(i)
       \/ Len(tasks') = Len(tasks) /\ tasks'[i] # tasks[i]

\* The refresh that tasks[i] of _submit_text called after its submit returns
\* in this step
PostSubmitRefreshEnds(i) ==
    /\ i \in DOMAIN tasks
    /\ tasks[i].kind = "submit"
    /\ tasks[i].pc \in {"sleep", "enum", "findtab"}
    /\ tasks' = Finished(i)
    /\ nFaults' = nFaults

\* C31: after every successful submit the daemon runs refresh() again; when
\* that refresh leaves no registered session the daemon reports 'No active
\* sessions' and stays listening.
C31_RefreshAfterSubmit ==
    [][ \A i \in 1..MaxTasks :
          /\ SubmitSucceeds(i)
               => /\ Len(tasks') = Len(tasks)
                  /\ tasks'[i] = Frame("submit", "sleep")
                  /\ daemon' = "listening"
          /\ PostSubmitRefreshEnds(i) /\ DOMAIN sessions' = {}
               => /\ status' = NoActiveSessions
                  /\ daemon' = "listening" ]_vars

\* The periodic task tasks[i] wakes from its sleep in this step
TickStarts(i) ==
    /\ i \in DOMAIN tasks
    /\ tasks[i].kind = "periodic"
    /\ tasks[i].pc = "sleep"
    /\ nTicks' = nTicks + 1

\* The periodic task tasks[i] goes back to its sleep in this step
TickEnds(i) ==
    /\ i \in DOMAIN tasks
    /\ tasks[i].kind = "periodic"
    /\ Len(tasks') = Len(tasks)
    /\ tasks'[i].pc = "sleep"
    /\ TickStarts(i) \/ tasks[i].pc # "sleep"

\* What the status sink shows after a tick that found previous_count
\* sessions before its refresh and leaves current_count
StatusAfterTick(previous_count, current_count) ==
    IF ~overlay THEN status
    ELSE IF current_count = 0 /\ previous_count > 0 THEN NoActiveSessions
    ELSE IF previous_count = 0 /\ current_count > 0 THEN SetListening
    ELSE status

\* The refresh of the tick that ends in this step raised
TickRaised == nFaults' = nFaults + 1 /\ lastFault' = "error"

Activating == {j \in DOMAIN tasks : tasks[j].kind = "window" /\ tasks[j].pc = "activate"}

\* The session the window command resolved to: the one its task is activating
\* or, once set_active_session has returned, the one it recorded
Selected ==
    IF Activating # {} THEN tasks[CHOOSE j \in Activating : TRUE].session
    ELSE active_session_id

\* C34: a window command that resolved to session s, then a PlainText, then
\* an EndOfInput, with no focus change by the user and no pane closing: the
\* submit is sent to s, also when the activation has not completed yet.
\* Stated for the runs where no backend call has failed or timed out.
\* (Three events, the text being the second: the window command was the
\* first; nothing has been sent, so only it can have selected a session.)
C34_SubmitGoesToSelected ==
    [][ \A i \in 1..MaxTasks :
          /\ Starts(i, "submit")
          /\ nEvents = 3
          /\ bufIds = {Heard(2, "TEXT")}
          /\ nChurn = 0
          /\ nFaults = 0
          /\ sent = <<>>
          /\ Selected # NoSession
          => sent' = <<[session |-> Selected,
                        text |-> WithNewline(Strip(text_buffer))]>> ]_vars

\* A direct call of refresh_sessions, tasks[i], returns in this step
RefreshCompletes(i) ==
    /\ i \in DOMAIN tasks
    /\ tasks[i].kind = "refresh"
    /\ tasks' = Finished(i)
    /\ lastResult'.op = "refresh_sessions"
    /\ lastResult'.value = "returned"

\* What compute_positions yields for session id in the tree of the tab that
\* contains it now, or no position when no tab contains it
CurrentPosition(id) ==
    LET tab == find_session_tab(id)
        positions == IF tab = NoTab THEN <<>> ELSE get_session_positions(tab)
        mine == {k \in DOMAIN positions : positions[k].session = id}
    IN  IF mine = {} THEN NoSessionPosition ELSE positions[Min(mine)]

\* C35: when a refresh completes, the position stored for every registered
\* session is the one compute_positions yields for it in the tree of the tab
\* that contains it at that moment; no session is left with a position that
\* an earlier refresh computed, a session missing from its recorded tab's
\* tree included.
C35_PositionsAreCurrent ==
    [][ \A i \in 1..MaxCalls :
          RefreshCompletes(i)
            => \A id \in DOMAIN sessions' :
                   sessions'[id].position = CurrentPosition(id) ]_vars

(***************************************************************************)
(* session_manager.py: _update_positions applied to one registry, any      *)
(* sessions registered with any recorded tabs, the panes open being any.   *)
(***************************************************************************)
Tabs == {TabOf(s) : s \in Sessions}

Registries ==
    UNION {[S -> {ManagedSession(tab) : tab \in Tabs}] : S \in SUBSET Sessions}

InitPositions ==
    /\ live \in SUBSET Sessions
    /\ sessions \in Registries
    /\ focus = NoSession
    /\ connected = TRUE
    /\ active_session_id = NoSession
    /\ text_buffer = <<>>
    /\ overlay = FALSE
    /\ status = NoStatus
    /\ daemon = "positions"
    /\ tasks = <<>>
    /\ sent = <<>>
    /\ submitCalls = <<>>
    /\ bufIds = {}
    /\ dropped = {}
    /\ lastEvent = [text |-> <<>>, is_final |-> FALSE]
    /\ nEvents = 0
    /\ nChurn = 0
    /\ nFaults = 0
    /\ nTicks = 0
    /\ nCalls = 0
    /\ lastResult = NoResult
    /\ lastFault = "none"
    /\ NoLayout
    /\ NotStopping
    /\ parse_text = <<>>
    /\ parse_result = NoParse

\* await self._update_positions()
UpdatePositions ==
    /\ daemon = "positions"
    /\ lastResult = NoResult
    /\ sessions' = update_positions(sessions)
    /\ lastResult' = [Result("update_positions", "returned")
                         EXCEPT !.resolved = PositionQueries(sessions)]
    /\ UNCHANGED <<live, focus, connected, active_session_id, text_buffer,
                   overlay, status, daemon, tasks, sent, submitCalls, bufIds,
                   dropped, lastEvent, nEvents, nChurn, nFaults, nTicks, nCalls,
                   lastFault, parse_text, parse_result, layout_root,
                   layout_positions, find_target, find_result,
                   shutdown_event, released>>

NextPositions == UpdatePositions

SpecPositions == InitPositions /\ [][NextPositions]_vars

\* The tabs recorded for the registered sessions
OwningTabs == {sessions[id].tab : id \in DOMAIN sessions}

\* C36: one _update_positions asks the layout resolver once for each
\* distinct owning tab of the registered sessions, however many sessions a
\* tab holds, and not at all for an empty registry.
C36_OneQueryPerTab ==
    lastResult.op = "update_positions"
      => /\ Len(lastResult.resolved) = Cardinality(OwningTabs)
         /\ \A tab \in OwningTabs :
               Cardinality({k \in DOMAIN lastResult.resolved :
                               lastResult.resolved[k] = tab}) = 1
         /\ DOMAIN sessions = {} => lastResult.resolved = <<>>

\* Three registered sessions in two tabs: two queries
C36_Witness ==
    /\ lastResult.op = "update_positions"
    /\ Cardinality(DOMAIN sessions) = 3
    /\ Cardinality(OwningTabs) = 2
    /\ Len(lastResult.resolved) = 2

\* C37: a registered target session that the backend goes on listing (its
\* pane stays open and no profile query has failed) is not removed from the
\* registry by any step, and when it is the cached active session no step
\* unsets the cache (only the eviction of a refresh sets it to none), also
\* when refreshes overlap.
C37_ListedSessionStays ==
    [][ \A s \in Targets :
          /\ s \in DOMAIN sessions
          /\ s \in live
          /\ s \in live'
          /\ nFaults' = 0
          => /\ s \in DOMAIN sessions'
             /\ active_session_id = s => active_session_id' # NoSession ]_vars

\* C38: when get_active_session returns a session, its id is a key of the
\* registry and is the cached active id after the call; a send by
\* send_text_to_active, submit_to_active or clear_current_line goes to a
\* session that is registered when it is sent, and that is the cached one.
C38_ActiveIsRegistered ==
    [][ \A i \in 1..MaxCalls :
          /\ Starts(i, "get_active") /\ lastResult'.value # NoSession
               => /\ lastResult'.op = "get_active_session"
                  /\ lastResult'.value \in DOMAIN sessions
                  /\ lastResult'.value \in DOMAIN sessions'
                  /\ active_session_id' = lastResult'.value
          /\ \A kind \in SendKinds :
               Starts(i, kind) /\ sent' # sent
                 => /\ Len(sent') = Len(sent) + 1
                    /\ sent'[Len(sent')].session \in DOMAIN sessions
                    /\ sent'[Len(sent')].session = active_session_id'
                    /\ sessions' = sessions ]_vars

\* A set_active_session put an unregistered pane into the cache and gave it
\* the focus; get_active_session then returned a registered session, which is
\* the cached one now
C38_Witness ==
    /\ lastResult.op = "get_active_session"
    /\ lastResult.before \notin DOMAIN sessions \cup {NoSession}
    /\ focus = lastResult.before
    /\ lastResult.value \in DOMAIN sessions
    /\ active_session_id = lastResult.value

\* C39: refresh called while the controller is not connected returns at once
\* without enumerating the backend, and the registry (its keys, every
\* position and is-active flag) and the cached active id are what they were.
C39_DisconnectedRefreshIsNoOp ==
    [][ \A i \in 1..MaxCalls :
          Starts(i, "refresh") /\ ~connected
            => /\ tasks' = Finished(i)
               /\ sessions' = sessions
               /\ active_session_id' = active_session_id
               /\ lastResult'.op = "refresh_sessions"
               /\ lastResult'.value = "not connected"
               /\ lastResult'.seen = {}
               /\ lastResult'.resolved = <<>> ]_vars

\* A refresh was called on a disconnected controller with a registry that
\* holds a session with a position and a cached active id, while a pane that
\* is not registered is open
C39_Witness ==
    /\ ~connected
    /\ lastResult.op = "refresh_sessions"
    /\ lastResult.value = "not connected"
    /\ active_session_id \in DOMAIN sessions
    /\ sessions[active_session_id].position # NoSessionPosition
    /\ (live \cap Targets) \ DOMAIN sessions # {}

(***************************************************************************)
(* The end of the daemon: claims C33 and C40.                              *)
(***************************************************************************)
\* The order in which stop() deals with the resources
ReleaseOrder == <<"audio", "transcriber", "overlay", "iterm">>

\* The resources this daemon holds, in that order: the overlay only if it
\* was created
HeldInOrder == SelectSeq(ReleaseOrder, LAMBDA r : r # "overlay" \/ OverlayStarted)

ReleasedNames == [k \in DOMAIN released |-> released[k].resource]

\* C33: no resource is released before the main loop has left its
\* consumption loop and the periodic refresh task has ended (cancelled and
\* awaited); stop() releases in the order audio capture, transcript source,
\* overlay, backend connection, and a timeout while stopping the transcript
\* source or the backend does not keep the later steps from running.
C33_OrderlyStop ==
    /\ released # <<>>
         => /\ daemon \in {"stop_transcriber", "stop_iterm", "stopped"}
            /\ PeriodicTasks(tasks) = {}
    /\ Len(released) <= Len(HeldInOrder)
    /\ \A k \in DOMAIN released : ReleasedNames[k] = HeldInOrder[k]
    /\ daemon = "stopped" => ReleasedNames = HeldInOrder

\* After a signal, a daemon with an overlay has stopped: stop_streaming
\* timed out, and the overlay and the backend were dealt with all the same
C33_Witness ==
    /\ daemon = "stopped"
    /\ shutdown_event
    /\ ReleasedNames = ReleaseOrder
    /\ released[2].outcome = "timeout"
    /\ ~connected

====
